---- MODULE Spec2Model ----
(***************************************************************************)
(* A model of the NeuraSentinel phone-dataset pipeline                     *)
(* (backend/prepare_phone_dataset.py, augment_from_new_phone_dataset.py,   *)
(* train_cnn.py) and of the session statistics of backend/main.py.         *)
(*                                                                         *)
(* Arrays keep the source's 0-based indices: an array of n elements is a   *)
(* function with domain 0..n-1.  Python lists that are appended to         *)
(* (candidates, peaks) are sequences whose ELEMENTS are 0-based indices.   *)
(*                                                                         *)
(* Real numbers are exact rationals held as scaled integers; every scale   *)
(* is stated where the value is defined.                                   *)
(***************************************************************************)
EXTENDS Integers, Sequences, FiniteSets, TLC

VARIABLES
    signal,            \* smooth_and_detect_peaks: the input array
    fs,                \* sampling rate in Hz (an integer number of Hz)
    thresh_factor,     \* thresh_factor (an integer)
    min_distance_sec,  \* min_distance_sec, in tenths of a second
    smooth,            \* the smoothed array TIMES window (window sums)
    mean,              \* smooth.mean() TIMES window * N, N = smooth.size
    std,               \* the SQUARE of (std TIMES window * N), std floored
    candidates,        \* list of candidate indices
    peaks,             \* list of kept peaks
    last_idx,          \* last kept index
    ci,                \* position of the spacing scan in candidates (1-based)
    dpc,               \* where the detector is: start, smoothed, scan, done,
                       \* raised
    \* the batch drivers (prepare_phone_dataset.main, augment_...main)
    files,             \* OUT_ROOT: class label -> (file name -> content tag)
    driver,            \* the main that runs: "none", "prepare", "augment"
    run,               \* number of driver runs started
    todo,              \* the rest of main's for loop
    class_name,        \* the class / label being processed
    ppc,               \* position: idle, loop, found, built, write, done, aborted
    nseg,              \* segments not yet written
    next_idx,          \* idx (process_class) / next_idx (process_new_folder)
    count,             \* count
    summary,           \* prepare: summary;  augment: <<total>>
    raised,            \* classes whose processing raised in this run
    warned,            \* the classes of the missing-file warnings printed
                       \* in this run, in order
    printed,           \* the final summary line was printed
    \* to_fixed_length
    seg,               \* the segment: array of rows, a row an array of rationals
    target_len,        \* target_len
    fixed,             \* to_fixed_length(seg, target_len)
    fixed2,            \* to_fixed_length(fixed, target_len)
    npc,               \* position: start, once, twice, raised
    \* augment_sample
    sample,            \* the input matrix
    aug,               \* aug after noise and gain
    new_t,             \* new_t
    aug_scaled,        \* aug_scaled
    aresult,           \* the matrix returned
    apc,               \* position: start, gained, scaled, done
    \* resample_to_grid.  Times are integers, in ticks; dt is a number of ticks
    t_in,              \* the argument t
    xyz_in,            \* the argument xyz: array of rows of 3 rationals
    dt,                \* dt = 1.0 / fs, in ticks
    order,             \* order = np.argsort(t)
    t_clean,           \* t after sorting, then after the duplicate mask
    xyz_clean,         \* xyz after sorting, then after the duplicate mask
    t_grid,            \* t_grid
    out,               \* out
    rpc,               \* position: start, sorted, cleaned, done, raised
    \* build_common_six_axis.  Times in ticks, as for resample_to_grid
    t_acc,             \* t_acc, the accelerometer timestamps loaded
    t_gyr,             \* t_gyr, the gyro timestamps loaded
    mdt,               \* dt = 1.0 / fs, in ticks
    t_acc_g,           \* t_acc_g
    acc_g,             \* acc_g
    t_gyr_g,           \* t_gyr_g
    gyr_g,             \* gyr_g
    t_start,           \* t_start
    t_end,             \* t_end
    t_common,          \* the t_grid returned
    data6,             \* data6
    mpc,               \* position: start, resampled, done, no_overlap, raised
    \* segment_around_peaks
    seg_n,             \* n, the number of rows of data6
    seg_peaks,         \* peaks
    seg_fs,            \* fs, in Hz
    pre_sec,           \* pre_sec, in hundredths of a second
    post_sec,          \* post_sec, in hundredths of a second
    segments,          \* segments: for data6[start:end] the record of the
                       \* peak it was cut for, start and end
    sgi,               \* position of the for loop in peaks (1-based)
    sgpc,              \* position: loop, done
    \* process_class from build_common_six_axis on
    pl_data6,          \* data6
    pl_mag,            \* mag
    pl_peaks,          \* peaks
    pl_segments,       \* segments, as the segmenter's records
    pl_written,        \* the matrices written, in order
    plpc,               \* position: built, peaks, write, done
    \* two workers running process_new_folder side by side
    wk_files,          \* OUT_ROOT: class label -> (file name -> content tag)
    wk_label,          \* worker -> the label of its folder
    wk_nseg,           \* worker -> segments not yet written
    wk_next_idx,       \* worker -> next_idx
    wk_count,          \* worker -> count
    wk_pc,              \* worker -> position: start, segmented, write, done
    \* augment_to_target (train_cnn.prepare_split_for_class)
    X_split,           \* X_split: the samples of the split, in order
    y_split,           \* y_split: their labels
    target,            \* target
    class_index,       \* class_index of the enclosing prepare_split_for_class
    aug_list,          \* aug_list
    X_aug,             \* the first array returned
    y_aug,             \* the second array returned
    tpc,                \* position: start, loop, done
    \* the session statistics of the HTTP backend (main.py)
    SESSION_STATS,     \* _SESSION_STATS: (player_id, session_id) -> shot_type -> accumulator
    stats_keys,        \* the keys of _SESSION_STATS in insertion order (a dict is ordered)
    LAST_SWING_RESULT, \* _LAST_SWING_RESULT: (player_id, session_id) -> result
    STATS_FILE,        \* _STATS_FILE: whether it exists, its keys in order, its content
    loaded,            \* _SESSION_STATS as the running process found it at start
    recorded,          \* <<key, shot_type>> -> requests recorded since the process started
    nreq,              \* number of classify_swing requests served
    nrestart           \* number of restarts of the process

detVars == <<signal, fs, thresh_factor, min_distance_sec, smooth, mean, std,
             candidates, peaks, last_idx, ci, dpc>>

drvVars == <<files, driver, run, todo, class_name, ppc, nseg, next_idx, count,
             summary, raised, warned, printed>>

normVars == <<seg, target_len, fixed, fixed2, npc>>

augVars == <<sample, aug, new_t, aug_scaled, aresult, apc>>

resVars == <<t_in, xyz_in, dt, order, t_clean, xyz_clean, t_grid, out, rpc>>

mrgVars == <<t_acc, t_gyr, mdt, t_acc_g, acc_g, t_gyr_g, gyr_g, t_start, t_end,
             t_common, data6, mpc>>

sgmVars == <<seg_n, seg_peaks, seg_fs, pre_sec, post_sec, segments, sgi, sgpc>>

pipVars == <<pl_data6, pl_mag, pl_peaks, pl_segments, pl_written, plpc>>

wrkVars == <<wk_files, wk_label, wk_nseg, wk_next_idx, wk_count, wk_pc>>

attVars == <<X_split, y_split, target, class_index, aug_list, X_aug, y_aug,
             tpc>>

statVars == <<SESSION_STATS, stats_keys, LAST_SWING_RESULT, STATS_FILE,
              loaded, recorded, nreq, nrestart>>

vars == <<detVars, drvVars, normVars, augVars, resVars, mrgVars, sgmVars,
          pipVars, wrkVars, attVars, statVars>>

\* what the steps of one component leave alone
notDet == <<drvVars, normVars, augVars, resVars, mrgVars, sgmVars, pipVars,
            wrkVars, attVars, statVars>>
notDrv == <<detVars, normVars, augVars, resVars, mrgVars, sgmVars, pipVars,
            wrkVars, attVars, statVars>>
notNorm == <<detVars, drvVars, augVars, resVars, mrgVars, sgmVars, pipVars,
             wrkVars, attVars, statVars>>
notAug == <<detVars, drvVars, normVars, resVars, mrgVars, sgmVars, pipVars,
            wrkVars, attVars, statVars>>
notRes == <<detVars, drvVars, normVars, augVars, mrgVars, sgmVars, pipVars,
            wrkVars, attVars, statVars>>
notMrg == <<detVars, drvVars, normVars, augVars, resVars, sgmVars, pipVars,
            wrkVars, attVars, statVars>>
notSgm == <<detVars, drvVars, normVars, augVars, resVars, mrgVars, pipVars,
            wrkVars, attVars, statVars>>
notPip == <<detVars, drvVars, normVars, augVars, resVars, mrgVars, sgmVars,
            wrkVars, attVars, statVars>>
notWrk == <<detVars, drvVars, normVars, augVars, resVars, mrgVars, sgmVars,
            pipVars, attVars, statVars>>
notAtt == <<detVars, drvVars, normVars, augVars, resVars, mrgVars, sgmVars,
            pipVars, wrkVars, statVars>>
notStat == <<detVars, drvVars, normVars, augVars, resVars, mrgVars, sgmVars,
             pipVars, wrkVars, attVars>>

----------------------------------------------------------------------------
(* Bounds of the model *)

\* longest signal drawn from all arrays over SignalVals
MaxLen == 6
\* longest constant signal
MaxConstLen == 9
\* length of the zero signals that carry one or two spikes, at fs = 100
MaxSpikeLen == 48
\* length of the zero signals that carry one or two spikes, at fs < 100
ShortSpikeLen == 14
\* largest spike height
MaxHeight == 2

\* number of driver runs
MaxRuns == 2
\* most segments cut from one recording
MaxSegs == 2
\* number of classes of CLASSES that have a source directory
NumClasses == 1

\* most rows of a segment drawn from all arrays over RowSet
MaxT == 4
\* largest small target length
MaxTarget == 4

\* largest seed of the noise and gain patterns
MaxSeed == 1
\* most samples of a trace handed to resample_to_grid
MaxTrace == 3
\* largest timestamp of a trace, in ticks
MaxTime == 4
\* largest dt, in ticks
MaxDt == 3
\* most rows of the signal handed to segment_around_peaks
MaxRows == 5
\* a recording of about 5 s has 500 rows, give or take MaxJitter
MaxJitter == 1
\* most samples of a split handed to augment_to_target
MaxSplit == 3
\* largest target handed to augment_to_target
MaxSplitTarget == 5
\* most classify_swing requests served
MaxRequests == 3
\* most restarts of the backend process
MaxRestarts == 1

\* SEGMENT_SAMPLES
SEGMENT_SAMPLES == 100
\* FS_TARGET, in Hz
FS_TARGET == 100
\* PRE_SEG_SEC and POST_SEG_SEC, in hundredths of a second
PRE_SEG_SEC == 50
POST_SEG_SEC == 50
\* FIXED_LENGTH
FIXED_LENGTH == 128

SignalVals == {0, 1, 2}
ConstVals == {-1, 0, 1, 2}

----------------------------------------------------------------------------
(* Helpers *)

Max(a, b) == IF a >= b THEN a ELSE b
Min(a, b) == IF a <= b THEN a ELSE b

\* sum of f[i] for i in lo..hi
RECURSIVE SumTo(_, _, _)
SumTo(f, lo, hi) ==
    IF lo > hi THEN 0
    ELSE IF lo = hi THEN f[lo]
    ELSE LET mid == (lo + hi) \div 2
         IN  SumTo(f, lo, mid) + SumTo(f, mid + 1, hi)

\* number of elements of an array
Size(a) == Cardinality(DOMAIN a)

EmptyArray == [i \in {} |-> 0]

----------------------------------------------------------------------------
(* smooth_and_detect_peaks *)

\* window = max(3, int(0.05 * fs))
Window(f) == Max(3, (5 * f) \div 100)

\* the distance obtained when the seconds are truncated before scaling
MinDistTruncated(mds, f) == (mds \div 10) * f

\* min_dist = int(min_distance_sec * fs), min_distance_sec in tenths
MinDist(mds, f) == (mds * f) \div 10

\* np.convolve(signal, ones(window)/window, mode="same"), times window.
\* numpy convolves the longer array with the shorter one; the result has
\* max(n, window) elements and starts (m-1) - m \div 2 elements into the
\* full convolution, m = min(n, window).
ConvolveSame(sig, w) ==
    LET n    == Size(sig)
        m    == Min(n, w)
        skip == (m - 1) - (m \div 2)
        full(k) == SumTo(sig, Max(0, k - w + 1), Min(n - 1, k))
    IN  [i \in 0..(Max(n, w) - 1) |-> full(i + skip)]

\* float(smooth.mean()), times window * N: the sum of the window sums
Mean(S) == SumTo(S, 0, Size(S) - 1)

\* float(smooth.std()) or 1.0, times window * N, squared:
\* (N * window * std)^2 = N * sum(S^2) - (sum S)^2, and 1.0 when that is 0
Std(S, w) ==
    LET N == Size(S)
        M == SumTo(S, 0, N - 1)
        Q == SumTo([j \in DOMAIN S |-> S[j] * S[j]], 0, N - 1)
        D == N * Q - M * M
    IN  IF D = 0 THEN (N * w) * (N * w) ELSE D

\* smooth[i] > thresh, thresh = mean + thresh_factor * std (thresh_factor >= 0):
\* N * S[i] - mn > thresh_factor * sqrt(sd)
AboveThresh(S, i, tf, mn, sd) ==
    LET X == Size(S) * S[i] - mn
    IN  X > 0 /\ X * X > tf * tf * sd

\* the candidate test without the comparison with the neighbours
IsCandidateAbove(S, i, tf, mn, sd) == AboveThresh(S, i, tf, mn, sd)

\* the test of the candidate loop at index i
IsCandidate(S, i, tf, mn, sd) ==
    /\ AboveThresh(S, i, tf, mn, sd)
    /\ S[i] >= S[i - 1]
    /\ S[i] >= S[i + 1]

\* the candidates among lo..hi, in index order
RECURSIVE CandidatesBetween(_, _, _, _, _, _)
CandidatesBetween(S, lo, hi, tf, mn, sd) ==
    IF lo > hi THEN <<>>
    ELSE IF lo = hi
    THEN IF IsCandidate(S, lo, tf, mn, sd) THEN <<lo>> ELSE <<>>
    ELSE LET mid == (lo + hi) \div 2
         IN  CandidatesBetween(S, lo, mid, tf, mn, sd)
                \o CandidatesBetween(S, mid + 1, hi, tf, mn, sd)

\* candidates, in index order: for i in range(1, n - 1)
CandidatesUpTo(S, hi, tf, mn, sd) == CandidatesBetween(S, 1, hi, tf, mn, sd)

Candidates(S, n, tf, mn, sd) == CandidatesUpTo(S, n - 2, tf, mn, sd)

\* variants of the replacement: append, overwrite the first peak, keep
ReplaceLastAppend(pk, idx) == Append(pk, idx)
ReplaceLastFirst(pk, idx) == [pk EXCEPT ![1] = idx]
ReplaceLastKeep(pk, idx) == pk
\* peaks[-1] = idx
ReplaceLast(pk, idx) == [pk EXCEPT ![Len(pk)] = idx]

\* the guard left out
TooShortNever(n) == FALSE
\* if n < 3
TooShort(n) == n < 3

\* if n < 3: return []
DetectShort ==
    /\ UNCHANGED notDet
    /\ dpc = "start"
    /\ TooShort(Size(signal))
    /\ peaks' = <<>>
    /\ dpc' = "done"
    /\ UNCHANGED <<signal, fs, thresh_factor, min_distance_sec, smooth,
                   mean, std, candidates, last_idx, ci>>

\* the moving average; np.convolve raises ValueError for an empty array
DetectSmooth ==
    /\ UNCHANGED notDet
    /\ dpc = "start"
    /\ ~TooShort(Size(signal))
    /\ IF Size(signal) = 0
       THEN dpc' = "raised" /\ UNCHANGED <<smooth, mean, std>>
       ELSE /\ smooth' = ConvolveSame(signal, Window(fs))
            /\ mean' = Mean(smooth')
            /\ std' = Std(smooth', Window(fs))
            /\ dpc' = "smoothed"
    /\ UNCHANGED <<signal, fs, thresh_factor, min_distance_sec, candidates,
                   peaks, last_idx, ci>>

\* the candidate loop; if not candidates: return []
DetectCandidates ==
    /\ UNCHANGED notDet
    /\ dpc = "smoothed"
    /\ candidates' = Candidates(smooth, Size(signal), thresh_factor, mean, std)
    /\ peaks' = <<>>
    /\ IF candidates' = <<>>
       THEN dpc' = "done" /\ UNCHANGED <<last_idx, ci>>
       ELSE /\ dpc' = "scan"
            /\ last_idx' = 0 - MinDist(min_distance_sec, fs)
            /\ ci' = 1
    /\ UNCHANGED <<signal, fs, thresh_factor, min_distance_sec, smooth, mean, std>>

\* spacing scan: idx - last_idx >= min_dist, append
ScanAppend ==
    /\ UNCHANGED notDet
    /\ dpc = "scan" /\ ci <= Len(candidates)
    /\ LET idx == candidates[ci]
       IN  /\ idx - last_idx >= MinDist(min_distance_sec, fs)
           /\ peaks' = Append(peaks, idx)
           /\ last_idx' = idx
    /\ ci' = ci + 1
    /\ UNCHANGED <<signal, fs, thresh_factor, min_distance_sec, smooth,
                   mean, std, candidates, dpc>>

\* spacing scan: too close but stronger than the last kept peak, replace it
ScanReplace ==
    /\ UNCHANGED notDet
    /\ dpc = "scan" /\ ci <= Len(candidates)
    /\ LET idx == candidates[ci]
       IN  /\ ~(idx - last_idx >= MinDist(min_distance_sec, fs))
           /\ smooth[idx] > smooth[last_idx]
           /\ peaks' = ReplaceLast(peaks, idx)
           /\ last_idx' = idx
    /\ ci' = ci + 1
    /\ UNCHANGED <<signal, fs, thresh_factor, min_distance_sec, smooth,
                   mean, std, candidates, dpc>>

\* spacing scan: too close and not stronger, drop the candidate
ScanSkip ==
    /\ UNCHANGED notDet
    /\ dpc = "scan" /\ ci <= Len(candidates)
    /\ LET idx == candidates[ci]
       IN  /\ ~(idx - last_idx >= MinDist(min_distance_sec, fs))
           /\ ~(smooth[idx] > smooth[last_idx])
    /\ ci' = ci + 1
    /\ UNCHANGED <<signal, fs, thresh_factor, min_distance_sec, smooth,
                   mean, std, candidates, peaks, last_idx, dpc>>

\* return peaks
DetectReturn ==
    /\ UNCHANGED notDet
    /\ dpc = "scan" /\ ci > Len(candidates)
    /\ dpc' = "done"
    /\ UNCHANGED <<signal, fs, thresh_factor, min_distance_sec, smooth,
                   mean, std, candidates, peaks, last_idx, ci>>

\* the zero signal of n samples with value h[k] at every k in DOMAIN h
SpikeSignal(n, h) ==
    [i \in 0..(n - 1) |-> IF i \in DOMAIN h THEN h[i] ELSE 0]

\* the sets of m positions among 0..n-1, m = 1, 2 or 3
Positions(n, m) ==
    LET I == 0..(n - 1)
    IN  IF m = 1 THEN {{a} : a \in I}
        ELSE IF m = 2
        THEN {{q[1], q[2]} : q \in {r \in I \X I : r[1] < r[2]}}
        ELSE {{q[1], q[2], q[3]} :
                 q \in {r \in I \X I \X I : r[1] < r[2] /\ r[2] < r[3]}}

ArbSignals == UNION {[0..(n - 1) -> SignalVals] : n \in 0..MaxLen}
ConstSignals == {[i \in 0..(n - 1) |-> c] : n \in 0..MaxConstLen, c \in ConstVals}
\* zero signals of n samples with exactly m spikes
SpikeSignals(n, m) ==
    UNION {{SpikeSignal(n, h) : h \in [K -> 1..MaxHeight]} : K \in Positions(n, m)}

\* signals with a first swing and then three swings of rising strength,
\* two samples apart, after z zero samples: the samples of sh, then a zero
ChainSignal(z, sh) ==
    [i \in 0..(z + Len(sh)) |->
        IF i >= z /\ i < z + Len(sh) THEN sh[i - z + 1] ELSE 0]

ChainSignals ==
    {ChainSignal(z, <<2, 0, 2, 0, 0, 2, 0, 2, 0>> \o t) :
        z \in 5..8,
        t \in (1..(MaxHeight + 1)) \X (1..(MaxHeight + 1)) \X (1..(MaxHeight + 1))}

\* <<fs, min_distance_sec in tenths, thresh_factor>>; the drivers call with
\* DriverParams
DriverParams == <<100, 3, 1>>
DetectParams ==
    {<<10, 0, 1>>, <<10, 1, 1>>, <<10, 2, 1>>, <<10, 3, 1>>, <<10, 3, 2>>,
     <<20, 3, 1>>, DriverParams}

DetectInputs ==
    ((ArbSignals \cup ConstSignals) \X DetectParams)
    \cup ((SpikeSignals(ShortSpikeLen, 1) \cup SpikeSignals(ShortSpikeLen, 2))
            \X (DetectParams \ {DriverParams}))
    \cup (SpikeSignals(ShortSpikeLen, 3) \X {<<10, 3, 1>>, <<20, 3, 1>>})
    \cup (ChainSignals \X {<<10, 3, 1>>, <<20, 3, 1>>})
    \cup ((SpikeSignals(MaxSpikeLen, 1) \cup SpikeSignals(MaxSpikeLen, 2))
            \X {DriverParams})

DetInit ==
    /\ \E in \in DetectInputs :
          /\ signal = in[1]
          /\ fs = in[2][1] /\ min_distance_sec = in[2][2] /\ thresh_factor = in[2][3]
    /\ smooth = EmptyArray
    /\ mean = 0
    /\ std = 0
    /\ candidates = <<>>
    /\ peaks = <<>>
    /\ last_idx = 0
    /\ ci = 0
    /\ dpc = "start"

DetNext ==
    \/ DetectShort
    \/ DetectSmooth
    \/ DetectCandidates
    \/ ScanAppend
    \/ ScanReplace
    \/ ScanSkip
    \/ DetectReturn

----------------------------------------------------------------------------
(* Output files.  A segment file of class c is <c>_<suffix>.csv; the model  *)
(* keeps the suffix, a sequence of one-character strings.  The content tag  *)
(* <<r, k>> says the file is the k-th segment written by run r; <<0, 0>> is *)
(* a file that was there before the first run.                              *)

Digits == <<"0", "1", "2", "3", "4", "5", "6", "7", "8", "9">>

DigitSet == {Digits[i] : i \in 1..Len(Digits)}

DigitValue(ch) == (CHOOSE i \in 1..Len(Digits) : Digits[i] = ch) - 1

\* the decimal digits of i >= 0
RECURSIVE DecDigits(_)
DecDigits(i) ==
    IF i < 10 THEN <<Digits[i + 1]>>
    ELSE Append(DecDigits(i \div 10), Digits[(i % 10) + 1])

\* f"{idx:03d}"
Fmt03d(i) ==
    LET d == DecDigits(i)
    IN  IF Len(d) >= 3 THEN d
        ELSE [j \in 1..(3 - Len(d)) |-> "0"] \o d

\* int(parts[1]) for a string of digits
RECURSIVE IntOf(_)
IntOf(sfx) ==
    IF Len(sfx) = 0 THEN 0
    ELSE 10 * IntOf(SubSeq(sfx, 1, Len(sfx) - 1)) + DigitValue(sfx[Len(sfx)])

\* the loop body of next_index_for_class on one stem: the index it reads,
\* or -1 when it skips the file (len(parts) != 2, or int() raises ValueError)
StemIndex(sfx) ==
    IF \E j \in 1..Len(sfx) : sfx[j] = "_" THEN -1
    ELSE IF Len(sfx) = 0 \/ \E j \in 1..Len(sfx) : sfx[j] \notin DigitSet THEN -1
    ELSE IntOf(sfx)

\* max_idx of next_index_for_class over the directory dir
MaxIdx(dir) ==
    LET idxs == {StemIndex(sfx) : sfx \in DOMAIN dir} \cup {0}
    IN  CHOOSE m \in idxs : \A i \in idxs : i <= m

\* next_index_for_class
next_index_for_classSame(dir) == MaxIdx(dir)
next_index_for_class(dir) == MaxIdx(dir) + 1

\* df_out.to_csv(out_path): create or overwrite
WriteFile(dir, sfx, tag) ==
    [x \in DOMAIN dir \cup {sfx} |-> IF x = sfx THEN tag ELSE dir[x]]

EmptyDir == [x \in {} |-> <<0, 0>>]

\* CLASSES
CLASSES ==
    <<"Forehand", "Backhand", "Smash", "Push", "Block", "Flick", "Serve", "Chop">>

ClassSet == {CLASSES[i] : i \in 1..Len(CLASSES)}

\* the classes of CLASSES the model's runs meet
SourceClasses == SubSeq(CLASSES, 1, NumClasses)

\* the labels of the sub-directories of NEW_ROOT, in sorted(iterdir()) order:
\* CLASS_MAP[name.lower()], or "none" for a folder without mapping.
\* Two folders (Forehand1, forehand1) can carry the same label.
FolderLists ==
    {<<"Backhand", "Forehand">>, <<"Forehand", "Forehand">>,
     <<"none", "Backhand">>, <<>>}

\* what a class directory can hold before the first run
OldNames == {<<"0", "0", "1">>, <<"0", "0", "3">>, <<"7">>, <<"x">>, <<"1", "_", "2">>}
OldDirs ==
    {[x \in D |-> <<0, 0>>] :
        D \in {{}, {<<"0", "0", "1">>}, {<<"0", "0", "3">>},
               {<<"0", "0", "1">>, <<"0", "0", "3">>},
               {<<"7">>, <<"x">>, <<"1", "_", "2">>}, OldNames}}

----------------------------------------------------------------------------
(* prepare_phone_dataset.main and process_class *)

\* main: summary = {}; for class_name in CLASSES
PrepMain_Start ==
    /\ UNCHANGED notDrv
    /\ ppc \in {"idle", "done", "aborted"}
    /\ run < MaxRuns
    /\ run' = run + 1
    /\ driver' = "prepare"
    /\ todo' = SourceClasses
    /\ summary' = <<>>
    /\ raised' = {}
    /\ warned' = <<>>
    /\ printed' = FALSE
    /\ ppc' = "loop"
    /\ UNCHANGED <<files, class_name, nseg, next_idx, count>>

\* process_class without the two "return 0": the warning is printed, then
\* accel_candidates[0] (or gyro_candidates[0]) raises IndexError, which main
\* catches
PC_MissingRaise ==
    /\ UNCHANGED notDrv
    /\ driver = "prepare" /\ ppc = "loop" /\ todo # <<>>
    /\ warned' = Append(warned, Head(todo))
    /\ raised' = raised \cup {Head(todo)}
    /\ summary' = Append(summary, <<Head(todo), 0>>)
    /\ todo' = Tail(todo)
    /\ UNCHANGED <<files, driver, run, class_name, ppc, nseg, next_idx, count,
                   printed>>

\* process_class: out_dir.mkdir; an accelerometer or gyro file is missing
PC_Missing ==
    /\ UNCHANGED notDrv
    /\ driver = "prepare" /\ ppc = "loop" /\ todo # <<>>
    /\ warned' = Append(warned, Head(todo))
    /\ summary' = Append(summary, <<Head(todo), 0>>)
    /\ todo' = Tail(todo)
    /\ UNCHANGED <<files, driver, run, class_name, ppc, nseg, next_idx, count,
                   raised, printed>>

\* process_class: both files found
PC_Found ==
    /\ UNCHANGED notDrv
    /\ driver = "prepare" /\ ppc = "loop" /\ todo # <<>>
    /\ class_name' = Head(todo)
    /\ todo' = Tail(todo)
    /\ ppc' = "found"
    /\ UNCHANGED <<files, driver, run, nseg, next_idx, count, summary, raised, warned,
                   printed>>

\* build_common_six_axis raises; main: except Exception: n = 0
PC_BuildRaise ==
    /\ UNCHANGED notDrv
    /\ driver = "prepare" /\ ppc = "found"
    /\ raised' = raised \cup {class_name}
    /\ UNCHANGED warned
    /\ summary' = Append(summary, <<class_name, 0>>)
    /\ ppc' = "loop"
    /\ UNCHANGED <<files, driver, run, todo, class_name, nseg, next_idx, count,
                   printed>>

\* build_common_six_axis returns
PC_BuildOk ==
    /\ UNCHANGED notDrv
    /\ driver = "prepare" /\ ppc = "found"
    /\ ppc' = "built"
    /\ UNCHANGED <<files, driver, run, todo, class_name, nseg, next_idx, count,
                   summary, raised, warned, printed>>

\* if not peaks: return 0
PC_NoPeaks ==
    /\ UNCHANGED notDrv
    /\ driver = "prepare" /\ ppc = "built"
    /\ summary' = Append(summary, <<class_name, 0>>)
    /\ ppc' = "loop"
    /\ UNCHANGED <<files, driver, run, todo, class_name, nseg, next_idx, count,
                   raised, warned, printed>>

\* segments = segment_around_peaks(...); count = 0; enumerate(segments, start=1)
PC_Segments ==
    /\ UNCHANGED notDrv
    /\ driver = "prepare" /\ ppc = "built"
    /\ \E n \in 0..MaxSegs : nseg' = n
    /\ next_idx' = 1
    /\ count' = 0
    /\ ppc' = "write"
    /\ UNCHANGED <<files, driver, run, todo, class_name, summary, raised, warned,
                   printed>>

\* the body of the write loop of process_class
PC_Write ==
    /\ UNCHANGED notDrv
    /\ driver = "prepare" /\ ppc = "write" /\ nseg > 0
    /\ files' = [files EXCEPT ![class_name] =
                    WriteFile(@, Fmt03d(next_idx), <<run, count + 1>>)]
    /\ next_idx' = next_idx + 1
    /\ count' = count + 1
    /\ nseg' = nseg - 1
    /\ UNCHANGED <<driver, run, todo, class_name, ppc, summary, raised, warned,
                   printed>>

\* return count; main: summary[class_name] = n
PC_Return ==
    /\ UNCHANGED notDrv
    /\ driver = "prepare" /\ ppc = "write" /\ nseg = 0
    /\ summary' = Append(summary, <<class_name, count>>)
    /\ ppc' = "loop"
    /\ UNCHANGED <<files, driver, run, todo, class_name, nseg, next_idx, count,
                   raised, warned, printed>>

\* main: the summary lines after the loop
PrepMain_Summary ==
    /\ UNCHANGED notDrv
    /\ driver = "prepare" /\ ppc = "loop" /\ todo = <<>>
    /\ printed' = TRUE
    /\ ppc' = "done"
    /\ UNCHANGED <<files, driver, run, todo, class_name, nseg, next_idx, count,
                   summary, raised, warned>>

----------------------------------------------------------------------------
(* augment_from_new_phone_dataset.main and process_new_folder *)

\* main: total = 0; for subdir in sorted(NEW_ROOT.iterdir())
AugMain_Start ==
    /\ UNCHANGED notDrv
    /\ ppc \in {"idle", "done", "aborted"}
    /\ run < MaxRuns
    /\ run' = run + 1
    /\ driver' = "augment"
    /\ todo' \in FolderLists
    /\ summary' = <<0>>
    /\ raised' = {}
    /\ warned' = <<>>
    /\ printed' = FALSE
    /\ ppc' = "loop"
    /\ UNCHANGED <<files, class_name, nseg, next_idx, count>>

\* main: label is None: continue
AugMain_Ignore ==
    /\ UNCHANGED notDrv
    /\ driver = "augment" /\ ppc = "loop" /\ todo # <<>>
    /\ Head(todo) = "none"
    /\ todo' = Tail(todo)
    /\ UNCHANGED <<files, driver, run, class_name, ppc, nseg, next_idx, count,
                   summary, raised, warned, printed>>

\* process_new_folder: find_accel_and_gyro_files returns None, None: return 0
NF_Missing ==
    /\ UNCHANGED notDrv
    /\ driver = "augment" /\ ppc = "loop" /\ todo # <<>>
    /\ Head(todo) # "none"
    /\ warned' = Append(warned, Head(todo))
    /\ todo' = Tail(todo)
    /\ summary' = <<summary[1] + 0>>
    /\ UNCHANGED <<files, driver, run, class_name, ppc, nseg, next_idx, count,
                   raised, printed>>

\* process_new_folder: both files found
NF_Found ==
    /\ UNCHANGED notDrv
    /\ driver = "augment" /\ ppc = "loop" /\ todo # <<>>
    /\ Head(todo) # "none"
    /\ class_name' = Head(todo)
    /\ todo' = Tail(todo)
    /\ ppc' = "found"
    /\ UNCHANGED <<files, driver, run, nseg, next_idx, count, summary, raised, warned,
                   printed>>

\* build_common_six_axis raises; neither process_new_folder nor main catches
NF_BuildRaise ==
    /\ UNCHANGED notDrv
    /\ driver = "augment" /\ ppc = "found"
    /\ raised' = raised \cup {class_name}
    /\ UNCHANGED warned
    /\ ppc' = "aborted"
    /\ UNCHANGED <<files, driver, run, todo, class_name, nseg, next_idx, count,
                   summary, printed>>

\* build_common_six_axis returns
NF_BuildOk ==
    /\ UNCHANGED notDrv
    /\ driver = "augment" /\ ppc = "found"
    /\ ppc' = "built"
    /\ UNCHANGED <<files, driver, run, todo, class_name, nseg, next_idx, count,
                   summary, raised, warned, printed>>

\* if not peaks: return 0
NF_NoPeaks ==
    /\ UNCHANGED notDrv
    /\ driver = "augment" /\ ppc = "built"
    /\ summary' = <<summary[1] + 0>>
    /\ ppc' = "loop"
    /\ UNCHANGED <<files, driver, run, todo, class_name, nseg, next_idx, count,
                   raised, warned, printed>>

\* segments = ...; class_dir.mkdir; next_idx = next_index_for_class(label)
NF_Segments ==
    /\ UNCHANGED notDrv
    /\ driver = "augment" /\ ppc = "built"
    /\ \E n \in 0..MaxSegs : nseg' = n
    /\ next_idx' = next_index_for_class(files[class_name])
    /\ count' = 0
    /\ ppc' = "write"
    /\ UNCHANGED <<files, driver, run, todo, class_name, summary, raised, warned,
                   printed>>

\* the body of the write loop of process_new_folder
NF_Write ==
    /\ UNCHANGED notDrv
    /\ driver = "augment" /\ ppc = "write" /\ nseg > 0
    /\ files' = [files EXCEPT ![class_name] =
                    WriteFile(@, Fmt03d(next_idx), <<run, count + 1>>)]
    /\ next_idx' = next_idx + 1
    /\ count' = count + 1
    /\ nseg' = nseg - 1
    /\ UNCHANGED <<driver, run, todo, class_name, ppc, summary, raised, warned,
                   printed>>

\* return count; main: total += ...
NF_Return ==
    /\ UNCHANGED notDrv
    /\ driver = "augment" /\ ppc = "write" /\ nseg = 0
    /\ summary' = <<summary[1] + count>>
    /\ ppc' = "loop"
    /\ UNCHANGED <<files, driver, run, todo, class_name, nseg, next_idx, count,
                   raised, warned, printed>>

\* main: print(f"Total new segments added: {total}")
AugMain_Total ==
    /\ UNCHANGED notDrv
    /\ driver = "augment" /\ ppc = "loop" /\ todo = <<>>
    /\ printed' = TRUE
    /\ ppc' = "done"
    /\ UNCHANGED <<files, driver, run, todo, class_name, nseg, next_idx, count,
                   summary, raised, warned>>

\* the output tree before the first run: one class directory may hold files
DrvInit ==
    /\ \E d \in OldDirs :
          files = [c \in ClassSet |-> IF c = "Forehand" THEN d ELSE EmptyDir]
    /\ driver = "none"
    /\ run = 0
    /\ todo = <<>>
    /\ class_name = "none"
    /\ ppc = "idle"
    /\ nseg = 0
    /\ next_idx = 0
    /\ count = 0
    /\ summary = <<>>
    /\ raised = {}
    /\ warned = <<>>
    /\ printed = FALSE

DrvNext ==
    \/ PrepMain_Start
    \/ PC_Missing
    \/ PC_Found
    \/ PC_BuildRaise
    \/ PC_BuildOk
    \/ PC_NoPeaks
    \/ PC_Segments
    \/ PC_Write
    \/ PC_Return
    \/ PrepMain_Summary
    \/ AugMain_Start
    \/ AugMain_Ignore
    \/ NF_Missing
    \/ NF_Found
    \/ NF_BuildRaise
    \/ NF_BuildOk
    \/ NF_NoPeaks
    \/ NF_Segments
    \/ NF_Write
    \/ NF_Return
    \/ AugMain_Total

----------------------------------------------------------------------------
(* Exact rationals <<numerator, denominator>>, denominator > 0 *)

RECURSIVE GCD(_, _)
GCD(a, b) == IF b = 0 THEN a ELSE GCD(b, a % b)

Abs(a) == IF a < 0 THEN 0 - a ELSE a

RNorm(num, den) ==
    LET g == GCD(Abs(num), den)
    IN  <<num \div g, den \div g>>

Rat(i) == <<i, 1>>

RLe(a, b) == a[1] * b[2] <= b[1] * a[2]
RLt(a, b) == a[1] * b[2] < b[1] * a[2]
REq(a, b) == RNorm(a[1], a[2]) = RNorm(b[1], b[2])

RAdd(a, b) ==
    LET g == GCD(a[2], b[2])
    IN  RNorm(a[1] * (b[2] \div g) + b[1] * (a[2] \div g), a[2] * (b[2] \div g))

RSub(a, b) == RAdd(a, <<0 - b[1], b[2]>>)

RMul(a, b) ==
    LET x == RNorm(a[1], b[2])
        y == RNorm(b[1], a[2])
    IN  RNorm(x[1] * y[1], x[2] * y[2])

\* a / b, b > 0
RDiv(a, b) == RMul(a, <<b[2], b[1]>>)

\* the rows of two matrices are equal as numbers
MatEq(A, B) ==
    /\ DOMAIN A = DOMAIN B
    /\ \A i \in DOMAIN A :
          /\ DOMAIN A[i] = DOMAIN B[i]
          /\ \A c \in DOMAIN A[i] : REq(A[i][c], B[i][c])

\* number of columns: shape[1] (a matrix without rows is given 6 columns)
Cols(A) == IF DOMAIN A = {} THEN 6 ELSE Size(A[0])

----------------------------------------------------------------------------
(* numpy helpers *)

\* np.linspace(start, stop, num), start and stop rationals
Linspace(start, stop, num) ==
    [i \in 0..(num - 1) |->
        IF num = 1 THEN start
        ELSE RAdd(start, RDiv(RMul(Rat(i), RSub(stop, start)), Rat(num - 1)))]

\* np.linspace(start, stop, num, endpoint=False)
LinspaceOpen(start, stop, num) ==
    [i \in 0..(num - 1) |->
        RAdd(start, RDiv(RMul(Rat(i), RSub(stop, start)), Rat(num)))]

\* np.interp(x, xp, fp) at one point x; xp increasing and not empty
Interp(x, xp, fp) ==
    LET n == Size(xp)
    IN  IF RLe(x, xp[0]) THEN fp[0]
        ELSE IF RLe(xp[n - 1], x) THEN fp[n - 1]
        ELSE LET i == CHOOSE k \in 0..(n - 2) : RLe(xp[k], x) /\ RLt(x, xp[k + 1])
                 w == RDiv(RSub(x, xp[i]), RSub(xp[i + 1], xp[i]))
             IN  RAdd(fp[i], RMul(w, RSub(fp[i + 1], fp[i])))

\* out[:, j] = np.interp(new_x, old_x, m[:, j]) for every column j
InterpColumns(new_x, old_x, m) ==
    [r \in DOMAIN new_x |->
        [c \in 0..(Cols(m) - 1) |->
            Interp(new_x[r], old_x, [i \in DOMAIN m |-> m[i][c]])]]

----------------------------------------------------------------------------
(* to_fixed_length (prepare_phone_dataset.py) and pad_or_truncate            *)
(* (train_cnn.py)                                                            *)

\* to_fixed_length without the T == target_len shortcut and with new_x
\* sampled without the end point
to_fixed_lengthOpen(sg, len) ==
    InterpColumns(LinspaceOpen(Rat(0), Rat(1), len),
                  Linspace(Rat(0), Rat(1), Size(sg)), sg)

\* to_fixed_length that keeps the rows and fills up with zero rows, or cuts
to_fixed_lengthPad(sg, len) ==
    [i \in 0..(len - 1) |->
        IF i < Size(sg) THEN sg[i] ELSE [c \in 0..(Cols(sg) - 1) |-> Rat(0)]]

\* to_fixed_length(seg, target_len), for a segment of 6 channels
to_fixed_length(sg, len) ==
    IF Size(sg) = len THEN sg
    ELSE InterpColumns(Linspace(Rat(0), Rat(1), len),
                       Linspace(Rat(0), Rat(1), Size(sg)), sg)

\* pad_or_truncate as a second full resample
pad_or_truncateResample(smp, length) == to_fixed_length(smp, length)

\* pad_or_truncate that does not cut a longer sample
pad_or_truncateNoCut(smp, length) ==
    LET t == Size(smp)
    IN  IF t >= length THEN smp
        ELSE [i \in 0..(length - 1) |->
                 IF i < t THEN smp[i] ELSE [c \in 0..(Cols(smp) - 1) |-> Rat(0)]]

\* pad_or_truncate(sample, length)
pad_or_truncate(smp, length) ==
    LET t == Size(smp)
    IN  IF t = length THEN smp
        ELSE IF t > length THEN [i \in 0..(length - 1) |-> smp[i]]
        ELSE [i \in 0..(length - 1) |->
                 IF i < t THEN smp[i] ELSE [c \in 0..(Cols(smp) - 1) |-> Rat(0)]]

\* if d != 6: raise ValueError
Normalize_Raise ==
    /\ UNCHANGED notNorm
    /\ npc = "start"
    /\ Cols(seg) # 6
    /\ npc' = "raised"
    /\ UNCHANGED <<seg, target_len, fixed, fixed2>>

\* fixed = to_fixed_length(seg, SEGMENT_SAMPLES)
Normalize ==
    /\ UNCHANGED notNorm
    /\ npc = "start"
    /\ Cols(seg) = 6
    /\ fixed' = to_fixed_length(seg, target_len)
    /\ npc' = "once"
    /\ UNCHANGED <<seg, target_len, fixed2>>

\* to_fixed_length applied to its own result
Renormalize ==
    /\ UNCHANGED notNorm
    /\ npc = "once"
    /\ fixed2' = to_fixed_length(fixed, target_len)
    /\ npc' = "twice"
    /\ UNCHANGED <<seg, target_len, fixed>>

\* rows of 6 channel values
RowSet ==
    {<<1, 2, 3, 4, 5, 6>>, <<3, 1, -2, 0, 7, 2>>, <<2, 5, 4, -1, 1, 9>>}

\* the row r as an array of rationals over channels 0..5
RowOf(r) == [c \in 0..(Len(r) - 1) |-> Rat(r[c + 1])]

\* the segment whose row i is (i+1) * (1, 2, 3, 4, 5, 6)
Ramp(t) == [i \in 0..(t - 1) |-> [c \in 0..5 |-> Rat((i + 1) * (c + 1))]]

SmallSegs ==
    UNION {{[i \in 0..(t - 1) |-> RowOf(f[i])] : f \in [0..(t - 1) -> RowSet]} :
              t \in 1..MaxT}

\* a segment of 3 channels
NarrowSeg == [i \in 0..1 |-> [c \in 0..2 |-> Rat(i + c)]]

NormInputs ==
    ((SmallSegs \cup {NarrowSeg}) \X (2..MaxTarget))
    \cup ({Ramp(SEGMENT_SAMPLES - 1), Ramp(SEGMENT_SAMPLES), Ramp(MaxT)}
             \X {SEGMENT_SAMPLES})

NormInit ==
    /\ \E in \in NormInputs : seg = in[1] /\ target_len = in[2]
    /\ fixed = EmptyArray
    /\ fixed2 = EmptyArray
    /\ npc = "start"

NormNext ==
    \/ Normalize_Raise
    \/ Normalize
    \/ Renormalize

\* to_fixed_length at rest
NormIdle ==
    /\ seg = EmptyArray /\ target_len = 0 /\ fixed = EmptyArray
    /\ fixed2 = EmptyArray /\ npc = "idle"

----------------------------------------------------------------------------
(* augment_sample (train_cnn.py).  The random draws are taken from small   *)
(* sets: the noise in hundredths (the code draws it with standard          *)
(* deviation 0.02), the gains and the scale in hundredths.                 *)

\* np.random.normal(0, 0.02, size=sample.shape): one noise matrix per seed
Noise(k, i, c) == <<((i + 2 * c + k) % 5) - 2, 100>>

\* np.random.uniform(0.97, 1.03, size=(d,)): one gain vector per seed
Gain(k, c) == <<97 + ((c + 3 * k) % 7), 100>>

\* np.random.uniform(0.92, 1.08), in hundredths
ScaleSet == {92, 96, 100, 104, 108}

\* new_t = int(t * scale); if new_t < 2: new_t = 2
NewT(t, sc) == Max(2, (t * sc) \div 100)

\* aug = sample + noise; aug = aug * gains[np.newaxis, :]
Aug_NoiseGain ==
    /\ UNCHANGED notAug
    /\ apc = "start"
    /\ \E ks \in 0..MaxSeed : \E kg \in 0..MaxSeed :
          aug' = [i \in DOMAIN sample |->
                    [c \in DOMAIN sample[i] |->
                        RMul(RAdd(sample[i][c], Noise(ks, i, c)), Gain(kg, c))]]
    /\ apc' = "gained"
    /\ UNCHANGED <<sample, new_t, aug_scaled, aresult>>

\* the time scaling by interpolation
Aug_TimeScale ==
    /\ UNCHANGED notAug
    /\ apc = "gained"
    /\ \E sc \in ScaleSet :
          LET t == Size(aug)
              nt == NewT(t, sc)
              orig_idx == Linspace(Rat(0), Rat(t - 1), t)
              new_idx == Linspace(Rat(0), Rat(t - 1), nt)
          IN  /\ new_t' = nt
              /\ aug_scaled' = InterpColumns(new_idx, orig_idx, aug)
    /\ apc' = "scaled"
    /\ UNCHANGED <<sample, aug, aresult>>

\* return pad_or_truncate(aug_scaled, FIXED_LENGTH)
Aug_Return ==
    /\ UNCHANGED notAug
    /\ apc = "scaled"
    /\ aresult' = pad_or_truncate(aug_scaled, FIXED_LENGTH)
    /\ apc' = "done"
    /\ UNCHANGED <<sample, aug, new_t, aug_scaled>>

\* a positive segment of t rows, row i channel c = ((i + c) mod 5) + 1
Wave(t) == [i \in 0..(t - 1) |-> [c \in 0..5 |-> Rat(((i + c) % 5) + 1)]]

\* the samples: short ones, one of FIXED_LENGTH rows, and a segment of
\* SEGMENT_SAMPLES rows as prepare_split_for_class hands it over,
\* pad_or_truncate(s) of a loaded file
AugSamples ==
    {Wave(t) : t \in 1..MaxT}
    \cup {Wave(FIXED_LENGTH), pad_or_truncate(Wave(SEGMENT_SAMPLES), FIXED_LENGTH)}

AugInit ==
    /\ sample \in AugSamples
    /\ aug = EmptyArray
    /\ new_t = 0
    /\ aug_scaled = EmptyArray
    /\ aresult = EmptyArray
    /\ apc = "start"

AugNext ==
    \/ Aug_NoiseGain
    \/ Aug_TimeScale
    \/ Aug_Return

\* augment_sample at rest
AugIdle ==
    /\ sample = EmptyArray /\ aug = EmptyArray /\ new_t = 0
    /\ aug_scaled = EmptyArray /\ aresult = EmptyArray /\ apc = "idle"

----------------------------------------------------------------------------
(* resample_to_grid (prepare_phone_dataset.py).  Timestamps are integers   *)
(* (ticks) and dt is a whole number of ticks, so that t_max + 0.5 * dt and *)
(* every grid point are exact; comparisons with 0.5 * dt are made on       *)
(* doubled values.                                                         *)

\* the permutations np.argsort(t) can return: kind="quicksort" orders the
\* values and promises nothing about the order of equal ones
ArgSorts(tt) ==
    {p \in [DOMAIN tt -> DOMAIN tt] :
        /\ \A i, j \in DOMAIN tt : (i # j) => (p[i] # p[j])
        /\ \A i, j \in DOMAIN tt : (i < j) => (tt[p[i]] <= tt[p[j]])}

\* a[order]
Take(a, ord) == [i \in DOMAIN ord |-> a[ord[i]]]

\* mask = ones; mask[1:] = t[1:] > t[:-1]
DupMask(tt) == [i \in DOMAIN tt |-> IF i = 0 THEN TRUE ELSE tt[i] > tt[i - 1]]

\* number of kept positions below i
KeptBelow(mask, i) == Cardinality({j \in DOMAIN mask : j < i /\ mask[j]})

\* a[mask]
Compress(a, mask) ==
    [k \in 0..(KeptBelow(mask, Size(mask)) - 1) |->
        a[CHOOSE i \in DOMAIN mask : mask[i] /\ KeptBelow(mask, i) = k]]

\* size of np.arange(lo, hi + 0.5 * step, step) that stops at hi + step:
\* the end point belongs to the grid
ArangeLenClosed(lo, hi, step) == ((2 * (hi - lo) + step) \div (2 * step)) + 1
\* size of np.arange(lo, hi + 0.5 * step, step):
\* ceil((stop - start) / step), the stop value itself is left out
ArangeLen(lo, hi, step) ==
    (2 * (hi - lo) + step + 2 * step - 1) \div (2 * step)

\* np.arange(lo, hi + 0.5 * step, step)
Arange(lo, hi, step) ==
    [i \in 0..(ArangeLen(lo, hi, step) - 1) |-> lo + i * step]

\* an integer array as rationals
RatArray(a) == [i \in DOMAIN a |-> Rat(a[i])]

\* order = np.argsort(t); t = t[order]; xyz = xyz[order, :]
Resample_Sort ==
    /\ UNCHANGED notRes
    /\ rpc = "start"
    /\ order' \in ArgSorts(t_in)
    /\ t_clean' = Take(t_in, order')
    /\ xyz_clean' = Take(xyz_in, order')
    /\ rpc' = "sorted"
    /\ UNCHANGED <<t_in, xyz_in, dt, t_grid, out>>

\* mask[1:] = t[1:] > t[:-1]; t = t[mask]; xyz = xyz[mask, :]
Resample_Mask ==
    /\ UNCHANGED notRes
    /\ rpc = "sorted"
    /\ t_clean' = Compress(t_clean, DupMask(t_clean))
    /\ xyz_clean' = Compress(xyz_clean, DupMask(t_clean))
    /\ rpc' = "cleaned"
    /\ UNCHANGED <<t_in, xyz_in, dt, order, t_grid, out>>

\* t_min, t_max = float(t[0]), float(t[-1]) on an empty array: IndexError
Resample_Raise ==
    /\ UNCHANGED notRes
    /\ rpc = "cleaned"
    /\ Size(t_clean) = 0
    /\ rpc' = "raised"
    /\ UNCHANGED <<t_in, xyz_in, dt, order, t_clean, xyz_clean, t_grid, out>>

\* t_grid = np.arange(...); out[:, i] = np.interp(t_grid, t, xyz[:, i])
Resample_Grid ==
    /\ UNCHANGED notRes
    /\ rpc = "cleaned"
    /\ Size(t_clean) > 0
    /\ t_grid' = Arange(t_clean[0], t_clean[Size(t_clean) - 1], dt)
    /\ out' = InterpColumns(RatArray(t_grid'), RatArray(t_clean), xyz_clean)
    /\ rpc' = "done"
    /\ UNCHANGED <<t_in, xyz_in, dt, order, t_clean, xyz_clean>>

\* the vector of sample i: every sample of a trace has its own
SampleVec(i) == [c \in 0..2 |-> Rat((i + 1) * (c + 1))]

\* traces: any timestamps, in any order, with repetitions
Traces == UNION {[0..(n - 1) -> 0..MaxTime] : n \in 0..MaxTrace}

ResInit ==
    /\ t_in \in Traces
    /\ xyz_in = [i \in DOMAIN t_in |-> SampleVec(i)]
    /\ dt \in 1..MaxDt
    /\ order = EmptyArray
    /\ t_clean = EmptyArray
    /\ xyz_clean = EmptyArray
    /\ t_grid = EmptyArray
    /\ out = EmptyArray
    /\ rpc = "start"

ResNext ==
    \/ Resample_Sort
    \/ Resample_Mask
    \/ Resample_Raise
    \/ Resample_Grid

\* resample_to_grid at rest
ResIdle ==
    /\ t_in = EmptyArray /\ xyz_in = EmptyArray /\ dt = 0 /\ order = EmptyArray
    /\ t_clean = EmptyArray /\ xyz_clean = EmptyArray /\ t_grid = EmptyArray
    /\ out = EmptyArray /\ rpc = "idle"

----------------------------------------------------------------------------
(* build_common_six_axis (prepare_phone_dataset.py).  The traces loaded    *)
(* are strictly increasing, so the sort and the duplicate mask of          *)
(* resample_to_grid leave them as they are.                                *)

\* resample_to_grid(t, xyz, fs) of a strictly increasing, non-empty trace
ResampledGrid(tt, step) == Arange(tt[0], tt[Size(tt) - 1], step)
ResampledOut(tt, xyz, step) ==
    InterpColumns(RatArray(ResampledGrid(tt, step)), RatArray(tt), xyz)

\* if t_end < t_start
NoOverlapStrict(ts, te) == te < ts
\* if t_end <= t_start
NoOverlap(ts, te) == te <= ts

\* np.concatenate([acc_common, gyr_common], axis=1)
Concat6(a, g) ==
    [i \in DOMAIN a |-> [c \in 0..5 |-> IF c < 3 THEN a[i][c] ELSE g[i][c - 3]]]

\* the vectors of the accelerometer and of the gyro samples
AccVecs(tt) == [i \in DOMAIN tt |-> SampleVec(i)]
GyrVecs(tt) == [i \in DOMAIN tt |-> SampleVec(i + 2)]

\* resample_to_grid raises on an empty trace (t[0], IndexError)
Merge_ResampleRaise ==
    /\ UNCHANGED notMrg
    /\ mpc = "start"
    /\ Size(t_acc) = 0 \/ Size(t_gyr) = 0
    /\ mpc' = "raised"
    /\ UNCHANGED <<t_acc, t_gyr, mdt, t_acc_g, acc_g, t_gyr_g, gyr_g,
                   t_start, t_end, t_common, data6>>

\* the two resample_to_grid calls; t_start and t_end
Merge_Resample ==
    /\ UNCHANGED notMrg
    /\ mpc = "start"
    /\ Size(t_acc) > 0 /\ Size(t_gyr) > 0
    /\ t_acc_g' = ResampledGrid(t_acc, mdt)
    /\ acc_g' = ResampledOut(t_acc, AccVecs(t_acc), mdt)
    /\ t_gyr_g' = ResampledGrid(t_gyr, mdt)
    /\ gyr_g' = ResampledOut(t_gyr, GyrVecs(t_gyr), mdt)
    /\ t_start' = Max(t_acc_g'[0], t_gyr_g'[0])
    /\ t_end' = Min(t_acc_g'[Size(t_acc_g') - 1], t_gyr_g'[Size(t_gyr_g') - 1])
    /\ mpc' = "resampled"
    /\ UNCHANGED <<t_acc, t_gyr, mdt, t_common, data6>>

\* raise ValueError("No overlapping time range ...")
Merge_NoOverlap ==
    /\ UNCHANGED notMrg
    /\ mpc = "resampled"
    /\ NoOverlap(t_start, t_end)
    /\ mpc' = "no_overlap"
    /\ UNCHANGED <<t_acc, t_gyr, mdt, t_acc_g, acc_g, t_gyr_g, gyr_g,
                   t_start, t_end, t_common, data6>>

\* the common grid, the two interpolations and the concatenation
Merge_Common ==
    /\ UNCHANGED notMrg
    /\ mpc = "resampled"
    /\ ~NoOverlap(t_start, t_end)
    /\ t_common' = Arange(t_start, t_end, mdt)
    /\ data6' = Concat6(
           InterpColumns(RatArray(t_common'), RatArray(t_acc_g), acc_g),
           InterpColumns(RatArray(t_common'), RatArray(t_gyr_g), gyr_g))
    /\ mpc' = "done"
    /\ UNCHANGED <<t_acc, t_gyr, mdt, t_acc_g, acc_g, t_gyr_g, gyr_g,
                   t_start, t_end>>

\* strictly increasing traces of up to 2 samples
SortedTraces ==
    {EmptyArray}
    \cup {[i \in 0..0 |-> a] : a \in 0..MaxTime}
    \cup {[i \in 0..1 |-> IF i = 0 THEN q[1] ELSE q[2]] :
             q \in {r \in (0..MaxTime) \X (0..MaxTime) : r[1] < r[2]}}

MrgInit ==
    /\ t_acc \in SortedTraces
    /\ t_gyr \in SortedTraces
    /\ mdt \in 1..MaxDt
    /\ t_acc_g = EmptyArray /\ acc_g = EmptyArray
    /\ t_gyr_g = EmptyArray /\ gyr_g = EmptyArray
    /\ t_start = 0 /\ t_end = 0
    /\ t_common = EmptyArray /\ data6 = EmptyArray
    /\ mpc = "start"

MrgNext ==
    \/ Merge_ResampleRaise
    \/ Merge_Resample
    \/ Merge_NoOverlap
    \/ Merge_Common

\* build_common_six_axis at rest
MrgIdle ==
    /\ t_acc = EmptyArray /\ t_gyr = EmptyArray /\ mdt = 0
    /\ t_acc_g = EmptyArray /\ acc_g = EmptyArray
    /\ t_gyr_g = EmptyArray /\ gyr_g = EmptyArray
    /\ t_start = 0 /\ t_end = 0
    /\ t_common = EmptyArray /\ data6 = EmptyArray
    /\ mpc = "idle"

----------------------------------------------------------------------------
(* segment_around_peaks (prepare_phone_dataset.py).  pre_sec and post_sec  *)
(* are in hundredths of a second, not negative.                            *)

\* int(sec * fs) for sec * fs >= 0: the fraction is cut off
IntOfProduct(sec, f) == (sec * f) \div 100

\* start = max(0, p - pre)
SegStart(p, pre) == Max(0, p - pre)

\* the end of a window that takes the row p + post in
SegEndInclusive(n, p, post) == Min(n, p + post + 1)

\* end = min(n, p + post)
SegEnd(n, p, post) == Min(n, p + post)

\* for p in peaks: ... segments.append(data6[start:end, :])
Segment_Append ==
    /\ UNCHANGED notSgm
    /\ sgpc = "loop" /\ sgi <= Len(seg_peaks)
    /\ LET p     == seg_peaks[sgi]
           start == SegStart(p, IntOfProduct(pre_sec, seg_fs))
           end   == SegEnd(seg_n, p, IntOfProduct(post_sec, seg_fs))
       IN  /\ ~(end <= start)
           /\ segments' = Append(segments, [peak |-> p, start |-> start, end |-> end])
    /\ sgi' = sgi + 1
    /\ UNCHANGED <<seg_n, seg_peaks, seg_fs, pre_sec, post_sec, sgpc>>

\* if end <= start: continue
Segment_Skip ==
    /\ UNCHANGED notSgm
    /\ sgpc = "loop" /\ sgi <= Len(seg_peaks)
    /\ LET p     == seg_peaks[sgi]
           start == SegStart(p, IntOfProduct(pre_sec, seg_fs))
           end   == SegEnd(seg_n, p, IntOfProduct(post_sec, seg_fs))
       IN  end <= start
    /\ sgi' = sgi + 1
    /\ UNCHANGED <<seg_n, seg_peaks, seg_fs, pre_sec, post_sec, segments, sgpc>>

\* return segments
Segment_Return ==
    /\ UNCHANGED notSgm
    /\ sgpc = "loop" /\ sgi > Len(seg_peaks)
    /\ sgpc' = "done"
    /\ UNCHANGED <<seg_n, seg_peaks, seg_fs, pre_sec, post_sec, segments, sgi>>

\* lists of up to 2 increasing peak indices of a signal of n rows
PeakLists(n) ==
    {<<>>}
    \cup {<<a>> : a \in 0..(n - 1)}
    \cup {r \in (0..(n - 1)) \X (0..(n - 1)) : r[1] < r[2]}

\* <<fs, pre_sec, post_sec>>: the program's (FS_TARGET, PRE_SEG_SEC,
\* POST_SEG_SEC) and others
SegmentParams ==
    {<<100, 50, 50>>, <<10, 26, 26>>, <<10, 25, 10>>, <<10, 0, 0>>, <<10, 0, 20>>,
     <<10, 20, 0>>}

SgmInit ==
    /\ seg_n \in 0..MaxRows
    /\ seg_peaks \in PeakLists(seg_n)
    /\ \E q \in SegmentParams : seg_fs = q[1] /\ pre_sec = q[2] /\ post_sec = q[3]
    /\ segments = <<>>
    /\ sgi = 1
    /\ sgpc = "loop"

SgmNext ==
    \/ Segment_Append
    \/ Segment_Skip
    \/ Segment_Return

\* segment_around_peaks at rest
SgmIdle ==
    /\ seg_n = 0 /\ seg_peaks = <<>> /\ seg_fs = 0 /\ pre_sec = 0 /\ post_sec = 0
    /\ segments = <<>> /\ sgi = 0 /\ sgpc = "idle"

----------------------------------------------------------------------------
(* process_class from the merged signal to the files written               *)
(* (prepare_phone_dataset.py).  The called functions are the operators     *)
(* below, the same computations as the actions of the detector and of the  *)
(* segmenter.  The recordings accelerate along x only, so that the         *)
(* magnitude np.linalg.norm((x, 0, 0)) = |x| is exact.                     *)

\* the spacing scan over candidates, from position i on
RECURSIVE ScanFrom(_, _, _, _, _, _)
ScanFrom(cands, i, pk, last, S, md) ==
    IF i > Len(cands) THEN pk
    ELSE LET idx == cands[i]
         IN  IF idx - last >= md
             THEN ScanFrom(cands, i + 1, Append(pk, idx), idx, S, md)
             ELSE IF S[idx] > S[last]
             THEN ScanFrom(cands, i + 1, ReplaceLast(pk, idx), idx, S, md)
             ELSE ScanFrom(cands, i + 1, pk, last, S, md)

\* smooth_and_detect_peaks(signal, fs, thresh_factor, min_distance_sec)
smooth_and_detect_peaks(sig, f, tf, mds) ==
    IF TooShort(Size(sig)) THEN <<>>
    ELSE LET S  == ConvolveSame(sig, Window(f))
             Sv == [i \in DOMAIN S |-> S[i]]
             mn == Mean(Sv)
             sd == Std(Sv, Window(f))
             c  == Candidates(Sv, Size(sig), tf, mn, sd)
         IN  IF c = <<>> THEN <<>>
             ELSE ScanFrom(c, 1, <<>>, 0 - MinDist(mds, f), Sv, MinDist(mds, f))

\* segment_around_peaks(data6, peaks, fs, pre_sec, post_sec), from peak i on
RECURSIVE SegmentsFrom(_, _, _, _, _)
SegmentsFrom(n, pks, i, pre, post) ==
    IF i > Len(pks) THEN <<>>
    ELSE LET start == SegStart(pks[i], pre)
             end   == SegEnd(n, pks[i], post)
             rest  == SegmentsFrom(n, pks, i + 1, pre, post)
         IN  IF end <= start THEN rest
             ELSE <<[peak |-> pks[i], start |-> start, end |-> end]>> \o rest

segment_around_peaks(n, pks, f, pre_s, post_s) ==
    SegmentsFrom(n, pks, 1, IntOfProduct(pre_s, f), IntOfProduct(post_s, f))

\* data6[start:end, :]
Slice(m, start, end) == [i \in 0..(end - start - 1) |-> m[start + i]]

\* mag = np.linalg.norm(acc, axis=1), for acc = (x, 0, 0)
Magnitude(m) == [i \in DOMAIN m |-> Abs(m[i][0][1])]

\* t_grid, data6 = build_common_six_axis(...); mag; peaks = ...;
\* if not peaks: return 0
Pipe_Detect ==
    /\ UNCHANGED notPip
    /\ plpc = "built"
    /\ pl_mag' = Magnitude(pl_data6)
    /\ LET dp == DriverParams IN
          pl_peaks' = smooth_and_detect_peaks(pl_mag', dp[1], dp[3], dp[2])
    /\ plpc' = IF pl_peaks' = <<>> THEN "done" ELSE "peaks"
    /\ UNCHANGED <<pl_data6, pl_segments, pl_written>>

\* segments = segment_around_peaks(data6, peaks, FS_TARGET, PRE_SEG_SEC,
\* POST_SEG_SEC); count = 0
Pipe_Segment ==
    /\ UNCHANGED notPip
    /\ plpc = "peaks"
    /\ pl_segments' = segment_around_peaks(Size(pl_data6), pl_peaks, FS_TARGET,
                                           PRE_SEG_SEC, POST_SEG_SEC)
    /\ plpc' = "write"
    /\ UNCHANGED <<pl_data6, pl_mag, pl_peaks, pl_written>>

\* for idx, seg in enumerate(segments, start=1):
\*     fixed = to_fixed_length(seg, SEGMENT_SAMPLES); df_out.to_csv(out_path)
Pipe_Write ==
    /\ UNCHANGED notPip
    /\ plpc = "write"
    /\ Len(pl_written) < Len(pl_segments)
    /\ LET sg == pl_segments[Len(pl_written) + 1]
       IN  pl_written' =
              Append(pl_written,
                     to_fixed_length(Slice(pl_data6, sg.start, sg.end),
                                     SEGMENT_SAMPLES))
    /\ UNCHANGED <<pl_data6, pl_mag, pl_peaks, pl_segments, plpc>>

\* return count
Pipe_Return ==
    /\ UNCHANGED notPip
    /\ plpc = "write"
    /\ Len(pl_written) = Len(pl_segments)
    /\ plpc' = "done"
    /\ UNCHANGED <<pl_data6, pl_mag, pl_peaks, pl_segments, pl_written>>

\* a recording of n rows: the acceleration is (base, 0, 0) but for the rows
\* in DOMAIN h, where it is (h[k], 0, 0); the gyro is constant
Recording(n, base, h) ==
    [i \in 0..(n - 1) |->
        [c \in 0..5 |->
            IF c = 0 THEN Rat(IF i \in DOMAIN h THEN h[i] ELSE base)
            ELSE IF c < 3 THEN Rat(0) ELSE Rat(c)]]

\* the baseline magnitude of the recordings
Baseline == 2

\* the rows a swing spike at time 2.5 s raises on the 100 Hz grid: the row
\* of the spike, at 3 times the baseline or less where the sample falls
\* between two grid points, and possibly the row after it
SpikeShapes(k) ==
    {[i \in {k} |-> a] : a \in {2 * Baseline, 3 * Baseline - 1, 3 * Baseline}}
    \cup {[i \in {k, k + 1} |-> IF i = k THEN q[1] ELSE q[2]] :
             q \in {2 * Baseline, 3 * Baseline - 1, 3 * Baseline}
                   \X {Baseline + 1, 2 * Baseline, 3 * Baseline - 1}}

\* recordings of about 5 s at FS_TARGET with one swing spike at 2.5 s
OneSwingRecordings ==
    UNION {{Recording(n, Baseline, h) :
               h \in SpikeShapes((5 * FS_TARGET) \div 2)} :
              n \in (5 * FS_TARGET - MaxJitter)..(5 * FS_TARGET + MaxJitter)}

\* other recordings: flat, with a swing close to the start, with two swings
OtherRecordings ==
    {Recording(5 * FS_TARGET, Baseline, <<>>),
     Recording(5 * FS_TARGET, Baseline, [i \in {30} |-> 3 * Baseline]),
     Recording(5 * FS_TARGET, Baseline,
               [i \in {150, 350} |-> 3 * Baseline])}

PipInit ==
    /\ pl_data6 \in OneSwingRecordings \cup OtherRecordings
    /\ pl_mag = EmptyArray
    /\ pl_peaks = <<>>
    /\ pl_segments = <<>>
    /\ pl_written = <<>>
    /\ plpc = "built"

PipNext ==
    \/ Pipe_Detect
    \/ Pipe_Segment
    \/ Pipe_Write
    \/ Pipe_Return

\* process_class at rest
PipIdle ==
    /\ pl_data6 = EmptyArray /\ pl_mag = EmptyArray /\ pl_peaks = <<>>
    /\ pl_segments = <<>> /\ pl_written = <<>> /\ plpc = "idle"

----------------------------------------------------------------------------
(* process_new_folder (augment_from_new_phone_dataset.py) run by two       *)
(* workers at the same time, each on its own source folder.  Reading the   *)
(* folder, merging, detecting and segmenting touch nothing shared; the     *)
(* class directory under OUT_ROOT is shared.  One listing of the directory *)
(* (the glob of next_index_for_class) and one to_csv are single steps.     *)
(* The content tag <<w, k>> is the k-th segment of worker w.               *)

Workers == {1, 2}

\* the labels of the two folders: CLASS_MAP[folder.name.lower()]
WorkerLabels ==
    {[w \in Workers |-> "Forehand"],
     [w \in Workers |-> IF w = 1 THEN "Backhand" ELSE "Forehand"]}

\* find_accel_and_gyro_files returns None, None, or no peak is detected:
\* return 0
Worker_ReturnZero ==
    /\ UNCHANGED notWrk
    /\ \E w \in Workers :
          /\ wk_pc[w] = "start"
          /\ wk_pc' = [wk_pc EXCEPT ![w] = "done"]
    /\ UNCHANGED <<wk_files, wk_label, wk_nseg, wk_next_idx, wk_count>>

\* t_grid, data6 = ...; peaks = ...; segments = segment_around_peaks(...)
Worker_Segments ==
    /\ UNCHANGED notWrk
    /\ \E w \in Workers :
          /\ wk_pc[w] = "start"
          /\ \E n \in 0..MaxSegs : wk_nseg' = [wk_nseg EXCEPT ![w] = n]
          /\ wk_pc' = [wk_pc EXCEPT ![w] = "segmented"]
    /\ UNCHANGED <<wk_files, wk_label, wk_next_idx, wk_count>>

\* class_dir.mkdir(parents=True, exist_ok=True);
\* next_idx = next_index_for_class(label); count = 0
Worker_NextIndex ==
    /\ UNCHANGED notWrk
    /\ \E w \in Workers :
          /\ wk_pc[w] = "segmented"
          /\ wk_next_idx' =
                [wk_next_idx EXCEPT ![w] = next_index_for_class(wk_files[wk_label[w]])]
          /\ wk_count' = [wk_count EXCEPT ![w] = 0]
          /\ wk_pc' = [wk_pc EXCEPT ![w] = "write"]
    /\ UNCHANGED <<wk_files, wk_label, wk_nseg>>

\* the body of the write loop: to_csv(out_path); next_idx += 1; count += 1
Worker_Write ==
    /\ UNCHANGED notWrk
    /\ \E w \in Workers :
          /\ wk_pc[w] = "write" /\ wk_nseg[w] > 0
          /\ wk_files' =
                [wk_files EXCEPT ![wk_label[w]] =
                    WriteFile(@, Fmt03d(wk_next_idx[w]), <<w, wk_count[w] + 1>>)]
          /\ wk_next_idx' = [wk_next_idx EXCEPT ![w] = @ + 1]
          /\ wk_count' = [wk_count EXCEPT ![w] = @ + 1]
          /\ wk_nseg' = [wk_nseg EXCEPT ![w] = @ - 1]
    /\ UNCHANGED <<wk_label, wk_pc>>

\* return count
Worker_Return ==
    /\ UNCHANGED notWrk
    /\ \E w \in Workers :
          /\ wk_pc[w] = "write" /\ wk_nseg[w] = 0
          /\ wk_pc' = [wk_pc EXCEPT ![w] = "done"]
    /\ UNCHANGED <<wk_files, wk_label, wk_nseg, wk_next_idx, wk_count>>

\* both workers are started on an output tree that may hold files
WrkInit ==
    /\ \E d \in OldDirs :
          wk_files = [c \in ClassSet |-> IF c = "Forehand" THEN d ELSE EmptyDir]
    /\ wk_label \in WorkerLabels
    /\ wk_nseg = [w \in Workers |-> 0]
    /\ wk_next_idx = [w \in Workers |-> 0]
    /\ wk_count = [w \in Workers |-> 0]
    /\ wk_pc = [w \in Workers |-> "start"]

WrkNext ==
    \/ Worker_ReturnZero
    \/ Worker_Segments
    \/ Worker_NextIndex
    \/ Worker_Write
    \/ Worker_Return

\* no worker runs
WrkIdle ==
    /\ wk_files = [c \in ClassSet |-> EmptyDir]
    /\ wk_label = [w \in Workers |-> "none"]
    /\ wk_nseg = [w \in Workers |-> 0]
    /\ wk_next_idx = [w \in Workers |-> 0]
    /\ wk_count = [w \in Workers |-> 0]
    /\ wk_pc = [w \in Workers |-> "idle"]

----------------------------------------------------------------------------
(* augment_to_target, the closure of prepare_split_for_class               *)
(* (train_cnn.py).  A sample is named by a number; augment_sample is       *)
(* random, and the sample it returns is the record of the sample it was    *)
(* given and of the random draw.  train_test_split returns no empty split  *)
(* (it raises instead), and every label of y is class_index.               *)

\* augment_sample(base) under the random draw k
AugmentedFrom(base, k) == [base |-> base, draw |-> k]

\* X_split[i % n_current] with i counted from 0, in a 1-based sequence
BaseIndexClamped(i, n) == Min(i, n - 1) + 1
BaseIndex(i, n) == (i % n) + 1

\* np.full(shape=(n,), fill_value=v)
Full(n, v) == [j \in 1..n |-> v]

\* if n_current >= target: return X_split, y_split
Target_ReturnSplit ==
    /\ UNCHANGED notAtt
    /\ tpc = "start"
    /\ Len(X_split) >= target
    /\ X_aug' = X_split
    /\ y_aug' = y_split
    /\ tpc' = "done"
    /\ UNCHANGED <<X_split, y_split, target, class_index, aug_list>>

\* needed = target - n_current; aug_list = []
Target_Needed ==
    /\ UNCHANGED notAtt
    /\ tpc = "start"
    /\ ~(Len(X_split) >= target)
    /\ aug_list' = <<>>
    /\ tpc' = "loop"
    /\ UNCHANGED <<X_split, y_split, target, class_index, X_aug, y_aug>>

\* for i in range(needed): base = X_split[i % n_current];
\* aug_list.append(augment_sample(base))
Target_Append ==
    /\ UNCHANGED notAtt
    /\ tpc = "loop"
    /\ Len(aug_list) < target - Len(X_split)
    /\ \E k \in 0..MaxSeed :
          aug_list' =
             Append(aug_list,
                    AugmentedFrom(X_split[BaseIndex(Len(aug_list), Len(X_split))], k))
    /\ UNCHANGED <<X_split, y_split, target, class_index, X_aug, y_aug, tpc>>

\* X_aug = np.concatenate([X_split, np.stack(aug_list)]);
\* y_aug = np.full((X_aug.shape[0],), class_index); return X_aug, y_aug
Target_Concatenate ==
    /\ UNCHANGED notAtt
    /\ tpc = "loop"
    /\ Len(aug_list) = target - Len(X_split)
    /\ X_aug' = X_split \o aug_list
    /\ y_aug' = Full(Len(X_aug'), class_index)
    /\ tpc' = "done"
    /\ UNCHANGED <<X_split, y_split, target, class_index, aug_list>>

\* the samples of a split
SplitSamples == {11, 12, 13}

\* the calls of prepare_split_for_class: a split of 1..MaxSplit samples,
\* labelled class_index, and a target
AttInit ==
    /\ \E n \in 1..MaxSplit : X_split \in [1..n -> SplitSamples]
    /\ class_index \in {0, Len(CLASSES) - 1}
    /\ y_split = Full(Len(X_split), class_index)
    /\ target \in 0..MaxSplitTarget
    /\ aug_list = <<>>
    /\ X_aug = <<>>
    /\ y_aug = <<>>
    /\ tpc = "start"

AttNext ==
    \/ Target_ReturnSplit
    \/ Target_Needed
    \/ Target_Append
    \/ Target_Concatenate

\* augment_to_target at rest
AttIdle ==
    /\ X_split = <<>> /\ y_split = <<>> /\ target = 0 /\ class_index = 0
    /\ aug_list = <<>> /\ X_aug = <<>> /\ y_aug = <<>> /\ tpc = "idle"

----------------------------------------------------------------------------
(* Session statistics (main.py): _update_session_stats,                    *)
(* _save_session_stats, _load_session_stats and the part of classify_swing *)
(* that calls them.  A str is the sequence of its characters; None is the  *)
(* one-element sequence NoneVal, which is no str.  Confidence and speed    *)
(* are in hundredths.  json.dumps and json.loads keep the order of the     *)
(* keys, the ints and the floats as they are.                              *)

NoneVal == <<"None">>

\* d[k] = v on a dict held as a function
DictSet(d, k, v) == [x \in DOMAIN d \cup {k} |-> IF x = k THEN v ELSE d[x]]

EmptyDict == [x \in {} |-> 0]

\* f"{player_id}|{session_id or ''}"
KeyString(k) ==
    k[1] \o <<"|">> \o (IF k[2] = NoneVal \/ k[2] = <<>> THEN <<>> ELSE k[2])

\* key_str.split("|", 1); session_id_val = session_id_raw or None
SplitKey(str) ==
    LET i   == CHOOSE j \in 1..Len(str) :
                  str[j] = "|" /\ \A h \in 1..(j - 1) : str[h] # "|"
        raw == SubSeq(str, i + 1, Len(str))
    IN  <<SubSeq(str, 1, i - 1), IF raw = <<>> THEN NoneVal ELSE raw>>

\* the key as a save followed by a load would leave it
StatsKeyNormalised(player_id, session_id) ==
    SplitKey(KeyString(<<player_id, session_id>>))

\* key = (player_id, session_id)
StatsKey(player_id, session_id) == <<player_id, session_id>>

\* the key strings of the keys order[1..n], each once, in the order in
\* which serializable[key] = {} first creates them
RECURSIVE KeyStringsOf(_, _)
KeyStringsOf(keys, n) ==
    IF n = 0 THEN <<>>
    ELSE LET rest == KeyStringsOf(keys, n - 1)
             ks   == KeyString(keys[n])
         IN  IF \E j \in 1..Len(rest) : rest[j] = ks THEN rest
             ELSE Append(rest, ks)

\* _save_session_stats: what write_text leaves in the file.  Of two keys
\* with the same key string the later one in the dict overwrites
\* serializable[key]
SaveStats(keys, stats) ==
    LET strs == KeyStringsOf(keys, Len(keys))
        last(ks) == CHOOSE i \in 1..Len(keys) :
                       /\ KeyString(keys[i]) = ks
                       /\ \A j \in (i + 1)..Len(keys) : KeyString(keys[j]) # ks
    IN  [exists |-> TRUE,
         order  |-> strs,
         data   |-> [ks \in {strs[j] : j \in 1..Len(strs)} |-> stats[keys[last(ks)]]]]

\* _load_session_stats: restored, and its keys in insertion order
LoadKeys(file) == [j \in 1..Len(file.order) |-> SplitKey(file.order[j])]
LoadStats(file) ==
    [k \in {SplitKey(file.order[j]) : j \in 1..Len(file.order)} |->
        file.data[CHOOSE ks \in DOMAIN file.data : SplitKey(ks) = k]]

NoFile == [exists |-> FALSE, order |-> <<>>, data |-> EmptyDict]

\* _ShotAccumulator()
NewAccumulator == [count |-> 0, sum_confidence |-> 0, sum_speed_mps |-> 0]

\* _update_session_stats(player_id, session_id, shot_type, confidence,
\* speed_mps): _SESSION_STATS afterwards
UpdateStats(stats, player_id, session_id, shot_type, confidence, speed_mps) ==
    LET key      == StatsKey(player_id, session_id)
        per_shot == IF key \in DOMAIN stats THEN stats[key] ELSE EmptyDict
        acc      == IF shot_type \in DOMAIN per_shot THEN per_shot[shot_type]
                    ELSE NewAccumulator
    IN  DictSet(stats, key,
                DictSet(per_shot, shot_type,
                        [count          |-> acc.count + 1,
                         sum_confidence |-> acc.sum_confidence + confidence,
                         sum_speed_mps  |-> acc.sum_speed_mps + speed_mps]))

\* payload.player_id and payload.session_id (Optional[str])
PlayerIds == {<<"a">>, <<"a", "|", "b">>}
SessionIds == {NoneVal, <<>>, <<"s">>}
StatKeys == PlayerIds \X SessionIds

ShotTypes == {"Forehand", "Backhand"}

\* <<shot_type, confidence, speed_mps>>: the stub prediction for a request
\* without samples, and a prediction of the classifier
SwingResults == {<<"Forehand", 75, 0>>, <<"Backhand", 90, 2>>}

\* classify_swing: the prediction, _update_session_stats,
\* _save_session_stats, _LAST_SWING_RESULT[...] = result
ClassifySwing ==
    /\ UNCHANGED notStat
    /\ nreq < MaxRequests
    /\ \E player_id \in PlayerIds : \E session_id \in SessionIds :
       \E res \in SwingResults :
          /\ SESSION_STATS' =
                UpdateStats(SESSION_STATS, player_id, session_id,
                            res[1], res[2], res[3])
          /\ stats_keys' =
                IF StatsKey(player_id, session_id) \in DOMAIN SESSION_STATS
                THEN stats_keys
                ELSE Append(stats_keys, StatsKey(player_id, session_id))
          /\ STATS_FILE' = SaveStats(stats_keys', SESSION_STATS')
          /\ LAST_SWING_RESULT' =
                DictSet(LAST_SWING_RESULT, <<player_id, session_id>>, res)
          /\ recorded' =
                [recorded EXCEPT ![<<<<player_id, session_id>>, res[1]>>] = @ + 1]
    /\ nreq' = nreq + 1
    /\ UNCHANGED <<loaded, nrestart>>

\* the process is started again: _SESSION_STATS = {};
\* _LAST_SWING_RESULT = {}; _load_session_stats()
Restart ==
    /\ UNCHANGED notStat
    /\ nrestart < MaxRestarts
    /\ SESSION_STATS' =
          IF STATS_FILE.exists THEN LoadStats(STATS_FILE) ELSE EmptyDict
    /\ stats_keys' = IF STATS_FILE.exists THEN LoadKeys(STATS_FILE) ELSE <<>>
    /\ LAST_SWING_RESULT' = EmptyDict
    /\ loaded' = SESSION_STATS'
    /\ recorded' = [x \in StatKeys \X ShotTypes |-> 0]
    /\ nrestart' = nrestart + 1
    /\ UNCHANGED <<STATS_FILE, nreq>>

\* the first start of the process, without a statistics file
StatInit ==
    /\ SESSION_STATS = EmptyDict
    /\ stats_keys = <<>>
    /\ LAST_SWING_RESULT = EmptyDict
    /\ STATS_FILE = NoFile
    /\ loaded = EmptyDict
    /\ recorded = [x \in StatKeys \X ShotTypes |-> 0]
    /\ nreq = 0
    /\ nrestart = 0

StatNext ==
    \/ ClassifySwing
    \/ Restart

\* the backend does not run
StatIdle ==
    /\ SESSION_STATS = EmptyDict /\ stats_keys = <<>>
    /\ LAST_SWING_RESULT = EmptyDict /\ STATS_FILE = NoFile
    /\ loaded = EmptyDict /\ recorded = EmptyDict
    /\ nreq = MaxRequests /\ nrestart = MaxRestarts

\* the detector at rest
DetIdle ==
    /\ signal = EmptyArray /\ fs = 0 /\ thresh_factor = 0 /\ min_distance_sec = 0
    /\ smooth = EmptyArray /\ mean = 0 /\ std = 0 /\ candidates = <<>>
    /\ peaks = <<>> /\ last_idx = 0 /\ ci = 0 /\ dpc = "idle"

\* the drivers at rest
DrvIdle ==
    /\ files = [c \in ClassSet |-> EmptyDir]
    /\ driver = "none" /\ run = 0 /\ todo = <<>> /\ class_name = "none"
    /\ ppc = "off" /\ nseg = 0 /\ next_idx = 0 /\ count = 0
    /\ summary = <<>> /\ raised = {} /\ warned = <<>> /\ printed = FALSE

InitDetect ==
    DetInit /\ DrvIdle /\ NormIdle /\ AugIdle /\ ResIdle
    /\ MrgIdle /\ SgmIdle /\ PipIdle /\ WrkIdle /\ AttIdle /\ StatIdle

SpecDetect == InitDetect /\ [][DetNext]_vars

InitDriver ==
    DrvInit /\ DetIdle /\ NormIdle /\ AugIdle /\ ResIdle
    /\ MrgIdle /\ SgmIdle /\ PipIdle /\ WrkIdle /\ AttIdle /\ StatIdle

SpecDriver == InitDriver /\ [][DrvNext]_vars

InitNorm ==
    NormInit /\ DetIdle /\ DrvIdle /\ AugIdle /\ ResIdle
    /\ MrgIdle /\ SgmIdle /\ PipIdle /\ WrkIdle /\ AttIdle /\ StatIdle

SpecNorm == InitNorm /\ [][NormNext]_vars

InitAug ==
    AugInit /\ DetIdle /\ DrvIdle /\ NormIdle /\ ResIdle
    /\ MrgIdle /\ SgmIdle /\ PipIdle /\ WrkIdle /\ AttIdle /\ StatIdle

SpecAug == InitAug /\ [][AugNext]_vars

InitResample ==
    ResInit /\ DetIdle /\ DrvIdle /\ NormIdle /\ AugIdle
    /\ MrgIdle /\ SgmIdle /\ PipIdle /\ WrkIdle /\ AttIdle /\ StatIdle

SpecResample == InitResample /\ [][ResNext]_vars

InitMerge ==
    MrgInit /\ DetIdle /\ DrvIdle /\ NormIdle /\ AugIdle
    /\ ResIdle /\ SgmIdle /\ PipIdle /\ WrkIdle /\ AttIdle /\ StatIdle

SpecMerge == InitMerge /\ [][MrgNext]_vars

InitSegment ==
    SgmInit /\ DetIdle /\ DrvIdle /\ NormIdle /\ AugIdle
    /\ ResIdle /\ MrgIdle /\ PipIdle /\ WrkIdle /\ AttIdle /\ StatIdle

SpecSegment == InitSegment /\ [][SgmNext]_vars

InitPipeline ==
    PipInit /\ DetIdle /\ DrvIdle /\ NormIdle /\ AugIdle /\ ResIdle
    /\ MrgIdle /\ SgmIdle /\ WrkIdle /\ AttIdle /\ StatIdle

SpecPipeline == InitPipeline /\ [][PipNext]_vars

InitWorkers ==
    WrkInit /\ DetIdle /\ DrvIdle /\ NormIdle /\ AugIdle /\ ResIdle
    /\ MrgIdle /\ SgmIdle /\ PipIdle /\ AttIdle /\ StatIdle

SpecWorkers == InitWorkers /\ [][WrkNext]_vars

InitTarget ==
    AttInit /\ DetIdle /\ DrvIdle /\ NormIdle /\ AugIdle /\ ResIdle
    /\ MrgIdle /\ SgmIdle /\ PipIdle /\ WrkIdle /\ StatIdle

SpecTarget == InitTarget /\ [][AttNext]_vars

InitStats ==
    StatInit /\ DetIdle /\ DrvIdle /\ NormIdle /\ AugIdle /\ ResIdle
    /\ MrgIdle /\ SgmIdle /\ PipIdle /\ WrkIdle /\ AttIdle

SpecStats == InitStats /\ [][StatNext]_vars

----------------------------------------------------------------------------
(* Properties of smooth_and_detect_peaks *)

\* the positions of the non-zero samples
Spikes(sig) == {i \in DOMAIN sig : sig[i] # 0}

\* all samples but those at the positions K are zero, those are positive
IsSpikeSignal(sig, K) ==
    /\ K \subseteq DOMAIN sig
    /\ Spikes(sig) = K
    /\ \A k \in K : sig[k] > 0

IsConstant(sig) == \A i \in DOMAIN sig : \A j \in DOMAIN sig : sig[i] = sig[j]

\* C1: the list of kept peaks is strictly increasing and every two
\* consecutive peaks in it are at least min_dist = int(min_distance_sec * fs)
\* apart, at every step of the spacing scan and in the returned list.
C1_PeaksSpaced ==
    \A j \in 1..(Len(peaks) - 1) :
        /\ peaks[j + 1] > peaks[j]
        /\ peaks[j + 1] - peaks[j] >= MinDist(min_distance_sec, fs)

\* C1 witness: a returned list of two or more peaks, min_dist > 0, whose
\* last peak replaced a candidate that had been appended after the peak
\* before it (the candidate c was far enough from every earlier peak to be
\* appended, and is not in the result).
C1_Witness ==
    /\ dpc = "done"
    /\ Len(peaks) >= 2
    /\ MinDist(min_distance_sec, fs) > 0
    /\ \E j \in 1..Len(candidates) :
          LET c == candidates[j]
          IN  /\ c < peaks[Len(peaks)]
              /\ c - peaks[Len(peaks) - 1] >= MinDist(min_distance_sec, fs)

\* C2 (as claimed): a zero signal with one positive spike at an index k at
\* least a smoothing window away from both ends, thresh_factor = 1 and the
\* default min_distance_sec = 0.3, returns exactly the one peak k.
C2_SingleSpikeAtSpikeIndex ==
    \A k \in DOMAIN signal :
        ( /\ dpc = "done"
          /\ IsSpikeSignal(signal, {k})
          /\ k >= Window(fs) /\ k <= Size(signal) - 1 - Window(fs)
          /\ thresh_factor = 1 /\ min_distance_sec = 3 )
        => peaks = <<k>>

\* C3 (as claimed): a zero signal with exactly two positive spikes fewer than
\* min_distance_sec * fs samples apart returns exactly one peak, and the
\* stronger spike lies inside that peak's smoothing window.  Stated for
\* spikes at least a smoothing window away from both ends of the signal.
C3_TwoCloseSpikesCollapse ==
    \A k1 \in DOMAIN signal : \A k2 \in DOMAIN signal :
        ( /\ dpc = "done"
          /\ k1 < k2
          /\ IsSpikeSignal(signal, {k1, k2})
          /\ k1 >= Window(fs) /\ k2 <= Size(signal) - 1 - Window(fs)
          /\ 10 * (k2 - k1) < min_distance_sec * fs
          /\ signal[k1] # signal[k2] )
        => /\ Len(peaks) = 1
           /\ LET strong == IF signal[k1] > signal[k2] THEN k1 ELSE k2
                  half   == Window(fs) \div 2
              IN  peaks[1] - strong <= half /\ strong - peaks[1] <= half

\* C4 (as claimed): every constant signal returns the empty list.
C4_ConstantSignalNoPeaks ==
    (dpc = "done" /\ IsConstant(signal)) => peaks = <<>>

----------------------------------------------------------------------------
(* Properties of the batch drivers *)

\* the summary records zero segments for class c
RecordsZero(c) == \E i \in 1..Len(summary) : summary[i] = <<c, 0>>

\* C5 (as claimed): in each driver an exception raised while one class or
\* folder is processed does not abort the run; the driver records zero
\* segments for it, processes what remains and prints the final summary.
C5_FailureIsolated ==
    (raised # {}) =>
        /\ ppc # "aborted"
        /\ (driver = "prepare" /\ ppc \in {"loop", "done"})
              => \A c \in raised : RecordsZero(c)
        /\ (ppc = "done") => (todo = <<>> /\ printed)

\* a step keeps every file of class c as it is, and a file it creates is
\* named one past the largest index present before the step
AppendsTo(c) ==
    /\ \A x \in DOMAIN files[c] :
          x \in DOMAIN files'[c] /\ files'[c][x] = files[c][x]
    /\ \A x \in (DOMAIN files'[c]) \ (DOMAIN files[c]) :
          x = Fmt03d(MaxIdx(files[c]) + 1)

\* C6 (as claimed): in either driver every segment file written is named one
\* past the largest index already present in the class directory, and no
\* file that exists is overwritten.
C6_WritesAppend == [][\A c \in ClassSet : AppendsTo(c)]_vars

\* C6 (amended): process_new_folder names every segment file one past the
\* largest index present and overwrites no file; process_class names its
\* k-th segment <Class>_<k, 3 digits> in every run, whatever the directory
\* holds, creating or overwriting that file.
C6_AugmentAppendsPrepareRenumbers ==
    [][ /\ (driver = "augment") => \A c \in ClassSet : AppendsTo(c)
        /\ (driver = "prepare" /\ files' # files) =>
              files' = [files EXCEPT ![class_name] =
                          WriteFile(@, Fmt03d(count + 1), <<run, count + 1>>)]
      ]_vars

\* C6 witness: process_new_folder has written two segments into a class
\* directory that held files before this run, one of them numbered 003.
C6_Witness ==
    /\ driver = "augment" /\ ppc = "write" /\ count = 2
    /\ <<"0", "0", "3">> \in DOMAIN files[class_name]
    /\ files[class_name][<<"0", "0", "3">>][1] < run
    /\ \E x \in DOMAIN files[class_name] : files[class_name][x] = <<run, 2>>

----------------------------------------------------------------------------
(* Properties of augment_sample *)

ZeroRow(r) == \A c \in DOMAIN r : r[c][1] = 0

\* C7 (as claimed): the time-warped signal is brought back to FIXED_LENGTH
\* rows by a second full linear resample: the first and the last warped row
\* are the first and the last row returned, so no zero row is padded after
\* the signal when new_t < L and no trailing row is dropped when new_t > L.
C7_SecondResample ==
    (apc = "done") =>
        \A c \in 0..5 :
            /\ REq(aresult[0][c], aug_scaled[0][c])
            /\ REq(aresult[FIXED_LENGTH - 1][c], aug_scaled[new_t - 1][c])

\* C7 (amended): the time-warped signal is brought back to FIXED_LENGTH rows
\* by pad_or_truncate: for new_t < L the new_t rows are kept and L - new_t
\* zero rows follow; for new_t > L the first L rows are kept and the
\* trailing new_t - L rows are dropped; for new_t = L nothing changes.
C7_PadsOrTruncates ==
    (apc = "done") =>
        /\ Size(aug_scaled) = new_t
        /\ \A i \in 0..(Min(new_t, FIXED_LENGTH) - 1) : aresult[i] = aug_scaled[i]
        /\ DOMAIN aresult = 0..(FIXED_LENGTH - 1)
        /\ \A i \in new_t..(FIXED_LENGTH - 1) : ZeroRow(aresult[i])

\* C7 witness: a warped signal shorter than FIXED_LENGTH whose last row is
\* not zero was returned with a zero tail.
C7_Witness ==
    /\ apc = "done"
    /\ new_t < FIXED_LENGTH
    /\ ~ZeroRow(aug_scaled[new_t - 1])
    /\ ZeroRow(aresult[FIXED_LENGTH - 1])

\* C8: augment_sample returns FIXED_LENGTH rows of 6 columns, whatever the
\* number of rows of the input and the noise, gain and scale drawn.
C8_AugmentShape ==
    (apc = "done") =>
        /\ DOMAIN aresult = 0..(FIXED_LENGTH - 1)
        /\ \A i \in DOMAIN aresult : DOMAIN aresult[i] = 0..5

\* C8 witness: the warp made the signal longer than FIXED_LENGTH.
C8_Witness ==
    /\ apc = "done"
    /\ new_t > FIXED_LENGTH
    /\ Size(aug_scaled) = new_t

----------------------------------------------------------------------------
(* Properties of to_fixed_length *)

\* C9: to_fixed_length returns a segment that already has target_len rows
\* exactly as it is, and applying it to its own result changes nothing.
C9_UnchangedAndIdempotent ==
    /\ (npc \in {"once", "twice"} /\ Size(seg) = target_len) => fixed = seg
    /\ (npc = "twice") => MatEq(fixed2, fixed)

\* C9 witness: both cases happened: a segment of target_len rows, and a
\* segment of another length that was resampled and normalized again.
C9_Witness ==
    /\ npc = "twice"
    /\ Size(seg) # target_len
    /\ ~MatEq(fixed, seg)
    /\ Size(fixed2) = target_len

\* the rows of seg on both sides of output row j of target_len rows
Bracket(j) ==
    {i \in DOMAIN seg :
        /\ i * (target_len - 1) <= j * (Size(seg) - 1)
        /\ j * (Size(seg) - 1) <= (i + 1) * (target_len - 1)}

\* C10: for T >= 1 rows and T # L the result has exactly L rows of 6 values;
\* every output row lies, channel by channel, between the two input rows
\* that surround its position on the normalized axis (a stretch, so a
\* positive segment gives no zero row); a channel that grows linearly with
\* the row number stays linear; and for T >= 2 the first and the last
\* output row are the first and the last input row.
C10_StretchNotPad ==
    (npc \in {"once", "twice"} /\ Size(seg) # target_len) =>
        LET T == Size(seg)
            L == target_len
        IN  /\ DOMAIN fixed = 0..(L - 1)
            /\ \A j \in 0..(L - 1) : DOMAIN fixed[j] = 0..5
            /\ \A j \in 0..(L - 1) : \A c \in 0..5 :
                  \E i \in Bracket(j) :
                     LET k  == IF i + 1 < T THEN i + 1 ELSE i
                         lo == IF RLe(seg[i][c], seg[k][c]) THEN seg[i][c] ELSE seg[k][c]
                         hi == IF RLe(seg[i][c], seg[k][c]) THEN seg[k][c] ELSE seg[i][c]
                     IN  RLe(lo, fixed[j][c]) /\ RLe(fixed[j][c], hi)
            /\ (\A i \in 0..(T - 1) : \A c \in 0..5 : seg[i][c][1] > 0)
                  => \A j \in 0..(L - 1) : \A c \in 0..5 : fixed[j][c][1] > 0
            /\ (seg = Ramp(T) /\ T >= 2) =>
                  \A j \in 0..(L - 1) : \A c \in 0..5 :
                     REq(fixed[j][c],
                         <<(c + 1) * ((L - 1) + j * (T - 1)), L - 1>>)
            /\ (T >= 2) => /\ \A c \in 0..5 : REq(fixed[0][c], seg[0][c])
                           /\ \A c \in 0..5 : REq(fixed[L - 1][c], seg[T - 1][c])

\* C10 witness: a short positive segment was stretched to more rows, and
\* some output row is strictly between two input rows.
C10_Witness ==
    /\ npc = "once"
    /\ Size(seg) >= 2 /\ Size(seg) < target_len
    /\ \A i \in DOMAIN seg : \A c \in 0..5 : seg[i][c][1] > 0
    /\ \E j \in DOMAIN fixed : \A i \in DOMAIN seg : ~REq(fixed[j][0], seg[i][0])

----------------------------------------------------------------------------
(* Properties of resample_to_grid *)

\* the distinct timestamps of the input trace
Distinct(tt) == {tt[i] : i \in DOMAIN tt}

StrictlyIncreasing(tt) == \A i \in DOMAIN tt : (i > 0) => (tt[i - 1] < tt[i])

\* t_max - t_min of the input trace
Span(tt) == tt[Size(tt) - 1] - tt[0]

\* C11 (as claimed): a trace with fewer than 2 distinct timestamps (empty,
\* one sample, or several samples at the same time) makes resample_to_grid
\* fail, and no signal is returned.
C11_TooFewTimestampsFail ==
    (rpc \in {"done", "raised"} /\ Cardinality(Distinct(t_in)) < 2) =>
        (rpc = "raised" /\ t_grid = EmptyArray /\ out = EmptyArray)

\* C12 (as claimed): for a strictly increasing trace of at least 2 samples
\* the grid has floor((t_max - t_min) / dt + 0.5) + 1 points, also when
\* (t_max - t_min) / dt is an exact half-integer.
C12_GridLengthHalfUp ==
    (rpc = "done" /\ Size(t_in) >= 2 /\ StrictlyIncreasing(t_in)) =>
        Size(t_grid) = ((2 * Span(t_in) + dt) \div (2 * dt)) + 1

\* C12 (amended): for a strictly increasing trace of at least 2 samples the
\* grid has N = ceil((t_max - t_min) / dt + 0.5) points: that is
\* floor((t_max - t_min) / dt + 0.5) + 1 unless (t_max - t_min) / dt is an
\* exact half-integer, and one point fewer when it is.
C12_GridLengthCeil ==
    (rpc = "done" /\ Size(t_in) >= 2 /\ StrictlyIncreasing(t_in)) =>
        LET N == Size(t_grid)
            X == 2 * Span(t_in) + dt
            F == X \div (2 * dt)
        IN  /\ 2 * (N - 1) * dt < X
            /\ X <= 2 * N * dt
            /\ (X % (2 * dt) # 0) => (N = F + 1)
            /\ (X % (2 * dt) = 0) => (N = F)

\* C12 witness: a strictly increasing trace whose span is an exact
\* half-integer number of steps, and more than one step, was resampled.
C12_Witness ==
    /\ rpc = "done" /\ Size(t_in) >= 2 /\ StrictlyIncreasing(t_in)
    /\ (2 * Span(t_in) + dt) % (2 * dt) = 0
    /\ Span(t_in) > dt

\* C13 (as claimed): every grid timestamp lies in [t_min, t_max] of the
\* cleaned trace.
C13_GridWithinTrace ==
    (rpc = "done") =>
        \A i \in DOMAIN t_grid :
            /\ t_clean[0] <= t_grid[i]
            /\ t_grid[i] <= t_clean[Size(t_clean) - 1]

\* the first position of time x in the input trace
FirstAt(x) ==
    CHOOSE i \in DOMAIN t_in :
        t_in[i] = x /\ \A j \in DOMAIN t_in : (t_in[j] = x) => (i <= j)

\* C14 (as claimed): after cleaning, the timestamps are strictly
\* increasing, every input time is kept once, and the vector kept for a
\* time is the one of its first occurrence in the input order.
C14_CleanKeepsFirst ==
    (rpc \in {"cleaned", "done", "raised"}) =>
        /\ StrictlyIncreasing(t_clean)
        /\ Distinct(t_clean) = Distinct(t_in)
        /\ \A k \in DOMAIN t_clean : xyz_clean[k] = xyz_in[FirstAt(t_clean[k])]

----------------------------------------------------------------------------
(* Properties of build_common_six_axis *)

\* first and last point of a grid
First(g) == g[0]
Last(g) == g[Size(g) - 1]

\* C15: once both traces are resampled, build_common_six_axis fails with
\* the no-overlap error exactly when the common window
\* [max(start_a, start_g), min(end_a, end_g)] of the two grids is empty
\* (its end equals its start) or inverted (its end is before its start);
\* in every other case it returns a signal of at least one row of 6 channels.
C15_NoOverlapIffEmptyWindow ==
    (mpc \in {"done", "no_overlap"}) =>
        LET lo == Max(First(t_acc_g), First(t_gyr_g))
            hi == Min(Last(t_acc_g), Last(t_gyr_g))
        IN  /\ (mpc = "no_overlap") <=> (hi <= lo)
            /\ (mpc = "done") =>
                  /\ Size(data6) >= 1
                  /\ DOMAIN data6 = DOMAIN t_common
                  /\ \A i \in DOMAIN data6 : DOMAIN data6[i] = 0..5

\* C15 witness: the accelerometer grid ends where the gyro grid starts (a
\* window of one instant), and the call failed with the no-overlap error.
C15_Witness ==
    /\ mpc = "no_overlap"
    /\ Size(t_acc_g) >= 2 /\ Size(t_gyr_g) >= 2
    /\ Last(t_acc_g) = First(t_gyr_g)

\* C16 (as claimed): the grid returned starts at or after the later of the
\* two start times and no grid timestamp is after the earlier of the two
\* end times.
C16_GridInsideIntersection ==
    (mpc = "done") =>
        /\ First(t_common) >= Max(First(t_acc_g), First(t_gyr_g))
        /\ \A i \in DOMAIN t_common :
              t_common[i] <= Min(Last(t_acc_g), Last(t_gyr_g))

----------------------------------------------------------------------------
(* Properties of segment_around_peaks *)

\* Python's round(sec * fs) for sec * fs >= 0: to the nearest integer, a
\* half to the even one
PyRound(sec, f) ==
    LET q == (sec * f) \div 100
        r == (sec * f) % 100
    IN  IF 2 * r < 100 THEN q
        ELSE IF 2 * r > 100 THEN q + 1
        ELSE IF q % 2 = 0 THEN q ELSE q + 1

\* C17 (as claimed): every segment cut for a peak p of a signal of T rows
\* is rows [start, end) with start = max(0, p - round(pre_sec * fs)) and
\* end = min(T, p + round(post_sec * fs)); start is never negative and end
\* never exceeds T.
C17_WindowRounded ==
    \A i \in 1..Len(segments) :
        LET sg == segments[i]
        IN  /\ sg.start = Max(0, sg.peak - PyRound(pre_sec, seg_fs))
            /\ sg.end = Min(seg_n, sg.peak + PyRound(post_sec, seg_fs))
            /\ sg.start >= 0
            /\ sg.end <= seg_n

----------------------------------------------------------------------------
(* Missing source files *)

\* C18: a class or folder in which the accelerometer or the gyro file is
\* missing is skipped: the step that prints the missing-file warning
\* writes and changes no file, raises nothing, counts zero segments for the
\* class (prepare: the summary records 0; augment: the total is unchanged)
\* and leaves the driver in its loop, at the next class or folder.
C18_MissingFilesSkipped ==
    [][ (Len(warned') = Len(warned) + 1) =>
            /\ files' = files
            /\ raised' = raised
            /\ ppc = "loop" /\ ppc' = "loop"
            /\ todo # <<>> /\ todo' = Tail(todo)
            /\ warned' = Append(warned, Head(todo))
            /\ (driver = "prepare") => (summary' = Append(summary, <<Head(todo), 0>>))
            /\ (driver = "augment") => (summary' = summary)
      ]_vars

\* C18 witness: the augment driver skipped a folder for a missing file and
\* then wrote a segment for the next folder.
C18_Witness ==
    /\ driver = "augment"
    /\ Len(warned) = 1
    /\ raised = {}
    /\ ppc = "write" /\ count = 1

----------------------------------------------------------------------------
(* smooth_and_detect_peaks: no error *)

\* C19: smooth_and_detect_peaks never raises, and it returns the empty list
\* for a signal of fewer than 3 samples (the empty signal included) and for
\* a signal without a candidate above the threshold.
C19_NeverRaises ==
    /\ dpc # "raised"
    /\ (dpc = "done" /\ Size(signal) < 3) => (peaks = <<>>)
    /\ (dpc = "done" /\ candidates = <<>>) => (peaks = <<>>)

\* C19 witness: a signal of at least 3 samples that is not constant had no
\* candidate above the threshold, and the empty list was returned.
C19_Witness ==
    /\ dpc = "done"
    /\ Size(signal) >= 3 /\ ~IsConstant(signal)
    /\ smooth # EmptyArray
    /\ candidates = <<>> /\ peaks = <<>>

----------------------------------------------------------------------------
(* End to end *)

\* C20: with fs = 100, pre_sec = post_sec = 0.5 and L = 100, a recording of
\* about 5 s with a single swing spike at 2.5 s yields exactly one output
\* segment, of 100 rows and 6 columns.
C20_OneSwingOneSegment ==
    (plpc = "done" /\ pl_data6 \in OneSwingRecordings) =>
        /\ Len(pl_written) = 1
        /\ DOMAIN pl_written[1] = 0..(SEGMENT_SAMPLES - 1)
        /\ \A i \in DOMAIN pl_written[1] : DOMAIN pl_written[1][i] = 0..5

\* C20 witness: a one-swing recording whose spike spreads over two grid
\* rows went through the pipeline, and the segment written holds the spike.
C20_Witness ==
    /\ plpc = "done"
    /\ pl_data6 \in OneSwingRecordings
    /\ pl_data6[(5 * FS_TARGET) \div 2 + 1][0] # Rat(Baseline)
    /\ Len(pl_written) = 1
    /\ \E i \in DOMAIN pl_written[1] :
          pl_written[1][i] = pl_data6[(5 * FS_TARGET) \div 2]

----------------------------------------------------------------------------
(* Properties of the spacing scan of smooth_and_detect_peaks *)

\* the spacing scan has a gap below min_dist between two consecutive peaks
HasShortGap(pk, md) == \E j \in 1..(Len(pk) - 1) : pk[j + 1] - pk[j] < md

\* C21 (as claimed): some input makes the spacing scan return a list with
\* two consecutive peaks closer than min_dist = int(min_distance_sec * fs),
\* the later one having replaced a weaker candidate.  Evaluated when a call
\* has returned, over every input of the detector.
C21_ReplacementCanBreakSpacing ==
    (dpc = "done") =>
        \E in \in DetectInputs :
            HasShortGap(
                smooth_and_detect_peaks(in[1], in[2][1], in[2][3], in[2][2]),
                MinDist(in[2][2], in[2][1]))

\* C21 (amended): a replacement overwrites the last kept peak by a later
\* index and leaves every other peak alone, so the replacing peak is
\* further from the peak kept before the replaced one than the replaced
\* peak was, and at least min_dist from it, also along a replacement chain.
C21_ReplacementWidensGap ==
    [][ (dpc = "scan" /\ Len(peaks') = Len(peaks) /\ peaks' # peaks) =>
           LET n == Len(peaks)
           IN  /\ peaks'[n] > peaks[n]
               /\ \A j \in 1..(n - 1) : peaks'[j] = peaks[j]
               /\ n >= 2 =>
                     /\ peaks'[n] - peaks'[n - 1] > peaks[n] - peaks[n - 1]
                     /\ peaks'[n] - peaks'[n - 1] >=
                           MinDist(min_distance_sec, fs)
      ]_vars

\* C21 witness: a returned list of two or more peaks whose last peak ended
\* a chain of two replacements: candidates c1 < c2 < last peak, each far
\* enough from the peak before to be appended, each stronger than the one
\* before it and closer than min_dist to it.
C21_Witness ==
    /\ dpc = "done"
    /\ Len(peaks) >= 2
    /\ LET md   == MinDist(min_distance_sec, fs)
           last == peaks[Len(peaks)]
           prev == peaks[Len(peaks) - 1]
       IN  \E j1 \in 1..Len(candidates) : \E j2 \in 1..Len(candidates) :
              LET c1 == candidates[j1]
                  c2 == candidates[j2]
              IN  /\ c1 - prev >= md /\ c1 < c2 /\ c2 < last
                  /\ c2 - c1 < md /\ last - c2 < md
                  /\ smooth[c1] < smooth[c2] /\ smooth[c2] < smooth[last]

\* smooth[i] > mean + thresh_factor * std with the standard deviation of the
\* smoothed signal itself (no replacement of a zero value), in the scaled
\* integers of Mean and Std
ExceedsThreshold(S, i, tf) ==
    LET N == Size(S)
        M == SumTo(S, 0, N - 1)
        Q == SumTo([j \in DOMAIN S |-> S[j] * S[j]], 0, N - 1)
        X == N * S[i] - M
    IN  X > 0 /\ X * X > tf * tf * (N * Q - M * M)

\* C22: every index in the list of kept peaks is an interior index of the
\* input, 1 <= i <= n - 2, at which the smoothed value strictly exceeds
\* mean + thresh_factor * std of the smoothed signal and is at least the
\* smoothed value of both neighbours.
C22_PeaksAreInteriorMaxima ==
    \A j \in 1..Len(peaks) :
        LET i == peaks[j]
        IN  /\ 1 <= i /\ i <= Size(signal) - 2
            /\ ExceedsThreshold(smooth, i, thresh_factor)
            /\ smooth[i] >= smooth[i - 1]
            /\ smooth[i] >= smooth[i + 1]

\* C22 witness: a returned list of two peaks, the second of which replaced
\* an earlier candidate, next to a sample above the threshold that is not
\* a local maximum.
C22_Witness ==
    /\ dpc = "done"
    /\ Len(peaks) = 2
    /\ peaks[2] # candidates[2]
    /\ \E i \in 1..(Size(signal) - 2) :
          /\ ExceedsThreshold(smooth, i, thresh_factor)
          /\ smooth[i] < smooth[i + 1]

\* the first candidate attaining the largest smoothed value of a candidate
FirstStrongest(cands, S) ==
    CHOOSE c \in {cands[j] : j \in 1..Len(cands)} :
        \A j \in 1..Len(cands) :
            /\ S[cands[j]] <= S[c]
            /\ S[cands[j]] = S[c] => c <= cands[j]

\* C25: when there is at least one candidate, the first candidate that
\* attains the maximum smoothed value among the candidates is in the
\* returned list.
C25_FirstStrongestKept ==
    (dpc = "done" /\ candidates # <<>>) =>
        \E j \in 1..Len(peaks) : peaks[j] = FirstStrongest(candidates, smooth)

\* C25 witness: the first strongest candidate replaced a weaker peak that
\* had been kept, and a later candidate as strong as it, closer than
\* min_dist, was dropped.
C25_Witness ==
    /\ dpc = "done" /\ candidates # <<>>
    /\ LET m  == FirstStrongest(candidates, smooth)
           md == MinDist(min_distance_sec, fs)
       IN  /\ \E j \in 1..Len(peaks) : peaks[j] = m
           /\ \E j \in 1..Len(candidates) :
                 /\ candidates[j] < m /\ m - candidates[j] < md
                 /\ smooth[candidates[j]] < smooth[m]
                 /\ \A k \in 1..Len(peaks) : peaks[k] # candidates[j]
           /\ \E j \in 1..Len(candidates) :
                 /\ candidates[j] > m /\ candidates[j] - m < md
                 /\ smooth[candidates[j]] = smooth[m]

----------------------------------------------------------------------------
(* Properties of the loop of segment_around_peaks *)

\* the peaks of the segments returned, in the order of the list
SegmentPeaks == [k \in 1..Len(segments) |-> segments[k].peak]

\* the peaks of seg_peaks that are not in Skipped, in the order of the list
KeptPeaks(Skipped) == SelectSeq(seg_peaks, LAMBDA q : q \notin Skipped)

\* every segment is the window of its peak
WindowsOfPeaks ==
    \A k \in 1..Len(segments) :
        /\ segments[k].start =
              SegStart(segments[k].peak, IntOfProduct(pre_sec, seg_fs))
        /\ segments[k].end =
              SegEnd(seg_n, segments[k].peak, IntOfProduct(post_sec, seg_fs))
        /\ segments[k].end > segments[k].start

\* C23 (as claimed): the segments are returned in peak order, one per
\* input peak but for the peaks that are skipped, and a peak that is a
\* valid row index is skipped only at a signal boundary (the first or the
\* last row).
C23_SkipsOnlyAtBoundary ==
    (sgpc = "done") =>
        /\ WindowsOfPeaks
        /\ \E Skipped \in SUBSET {0, seg_n - 1} :
              SegmentPeaks = KeptPeaks(Skipped)

\* C23 (amended): the segments are returned in peak order, one per input
\* peak but for the peaks whose window is empty, which are skipped without
\* error; for a peak p that is a valid row index the window is empty
\* exactly when int(post_sec * fs) = 0 and (int(pre_sec * fs) = 0 or
\* p = 0), at any row when both lengths are 0.
C23_SkipsOnlyEmptyWindows ==
    (sgpc = "done") =>
        /\ WindowsOfPeaks
        /\ SegmentPeaks =
              KeptPeaks({q \in 0..(seg_n - 1) :
                           /\ IntOfProduct(post_sec, seg_fs) = 0
                           /\ IntOfProduct(pre_sec, seg_fs) = 0 \/ q = 0})

\* C23 witness: of two peaks the first, at row 0, was skipped and the
\* second has its segment.
C23_Witness ==
    /\ sgpc = "done"
    /\ Len(seg_peaks) = 2 /\ seg_peaks[1] = 0
    /\ Len(segments) = 1 /\ segments[1].peak = seg_peaks[2]

----------------------------------------------------------------------------
(* Properties of two workers running process_new_folder *)

\* the output paths worker w has written: <<label, file name suffix>>
PathsWritten(w) ==
    {<<wk_label[w], Fmt03d(wk_next_idx[w] - k)>> : k \in 1..wk_count[w]}

\* the k-th segment of worker w is in the class directory of its label
SegmentPresent(w, k) ==
    \E x \in DOMAIN wk_files[wk_label[w]] : wk_files[wk_label[w]][x] = <<w, k>>

\* C24 (as claimed): in every interleaving of two workers running
\* process_new_folder on different source folders, the workers never write
\* the same output path and every segment either of them has written is
\* present, also when both folders map to the same class label.
C24_WorkersNeverCollide ==
    /\ PathsWritten(1) \cap PathsWritten(2) = {}
    /\ \A w \in Workers : \A k \in 1..wk_count[w] : SegmentPresent(w, k)

----------------------------------------------------------------------------
(* Properties of augment_to_target *)

\* C26: augment_to_target returns the split unchanged when it has at least
\* target samples; otherwise it returns exactly target samples, the
\* originals in order first, then target - n_current augmented samples,
\* the i-th (from 0) derived from original number i mod n_current; every
\* label returned equals class_index.
C26_AugmentToTarget ==
    (tpc = "done") =>
        LET n == Len(X_split)
        IN  /\ n >= target => (X_aug = X_split /\ y_aug = y_split)
            /\ n < target =>
                  /\ Len(X_aug) = target
                  /\ SubSeq(X_aug, 1, n) = X_split
                  /\ \A i \in 0..(target - n - 1) :
                        \E k \in 0..MaxSeed :
                            X_aug[n + 1 + i] =
                               AugmentedFrom(X_split[(i % n) + 1], k)
            /\ Len(y_aug) = Len(X_aug)
            /\ \A j \in 1..Len(y_aug) : y_aug[j] = class_index

\* C26 witness: a split of two different samples was brought to a target
\* of five: the third augmented sample comes from the first original again.
C26_Witness ==
    /\ tpc = "done"
    /\ Len(X_split) = 2 /\ X_split[1] # X_split[2]
    /\ target = 5 /\ Len(X_aug) = 5
    /\ X_aug[5].base = X_split[1]
    /\ class_index # 0

----------------------------------------------------------------------------
(* Properties of the session statistics *)

\* C27 (as claimed): saving and loading the session statistics is a round
\* trip: for every _SESSION_STATS the backend can hold, _load_session_stats
\* applied to the file written by _save_session_stats gives the same keys
\* and, per key and shot type, the same count and sums.
C27_SaveLoadRoundTrip ==
    LET restored == LoadStats(SaveStats(stats_keys, SESSION_STATS))
    IN  /\ DOMAIN restored = DOMAIN SESSION_STATS
        /\ \A k \in DOMAIN restored : restored[k] = SESSION_STATS[k]

\* the dict stats has an accumulator for key k and shot type sh
HasAccumulator(stats, k, sh) == k \in DOMAIN stats /\ sh \in DOMAIN stats[k]

\* that accumulator, or a new one
Accumulator(stats, k, sh) ==
    IF HasAccumulator(stats, k, sh) THEN stats[k][sh] ELSE NewAccumulator

\* nothing changes for key k of the dict d
SameEntry(d1, d2, k) ==
    /\ (k \in DOMAIN d1) = (k \in DOMAIN d2)
    /\ k \in DOMAIN d1 => d1[k] = d2[k]

\* the requests recorded under key k and shot type sh since the start
RecordedUnder(rec, k, sh) == IF <<k, sh>> \in DOMAIN rec THEN rec[<<k, sh>>] ELSE 0

\* C28: every classify_swing request increments exactly one accumulator, the
\* one of its (player_id, session_id, shot_type), by 1, and leaves alone
\* the accumulators of every other player, session and shot type and the
\* last-swing entry of every other (player, session); so every
\* accumulator's count is the count the process started with plus the
\* number of requests recorded under its key.
C28_RequestTouchesOneAccumulator ==
    [][ (nreq' = nreq + 1) =>
          LET Keys == StatKeys \cup DOMAIN SESSION_STATS \cup DOMAIN SESSION_STATS'
          IN  /\ \E k \in StatKeys : \E sh \in ShotTypes :
                    /\ recorded'[<<k, sh>>] = recorded[<<k, sh>>] + 1
                    /\ Accumulator(SESSION_STATS', k, sh).count =
                          Accumulator(SESSION_STATS, k, sh).count + 1
                    /\ \A k2 \in Keys : \A sh2 \in ShotTypes :
                          (<<k2, sh2>> # <<k, sh>>) =>
                             /\ HasAccumulator(SESSION_STATS', k2, sh2) =
                                   HasAccumulator(SESSION_STATS, k2, sh2)
                             /\ Accumulator(SESSION_STATS', k2, sh2) =
                                   Accumulator(SESSION_STATS, k2, sh2)
                    /\ \A k2 \in (Keys \cup DOMAIN LAST_SWING_RESULT) \ {k} :
                          SameEntry(LAST_SWING_RESULT', LAST_SWING_RESULT, k2)
              /\ \A k \in Keys : \A sh \in ShotTypes :
                    Accumulator(SESSION_STATS', k, sh).count =
                       Accumulator(loaded', k, sh).count
                          + RecordedUnder(recorded', k, sh)
      ]_vars

\* C28 witness: three requests of one player were served, two with the
\* session_id "" and one without session_id, and each of the two sessions
\* has its own count and its own last swing.
C28_Witness ==
    /\ nreq = 3 /\ nrestart = 0
    /\ LET p == <<"a">>
       IN  /\ Accumulator(SESSION_STATS, <<p, <<>>>>, "Forehand").count = 2
           /\ Accumulator(SESSION_STATS, <<p, NoneVal>>, "Backhand").count = 1
           /\ <<p, <<>>>> \in DOMAIN LAST_SWING_RESULT
           /\ <<p, NoneVal>> \in DOMAIN LAST_SWING_RESULT
           /\ LAST_SWING_RESULT[<<p, <<>>>>] # LAST_SWING_RESULT[<<p, NoneVal>>]

====
